---------------------------- MODULE Spec2Model ----------------------------
(***************************************************************************)
(* spt, the stored procedure transpiler (bin/main.ts): the batch run of    *)
(* main over its input modules.  Every input module gets one pipeline      *)
(* (compile -> pack -> call_rollup); the pipelines are promises running    *)
(* on one event loop and are joined by Promise.all.                        *)
(*                                                                         *)
(* One step of the model is one turn of the event loop: the synchronous    *)
(* code between two awaits.  The filesystem is the set of scratch          *)
(* directories and the emitted script file of every input path.            *)
(***************************************************************************)
EXTENDS Integers, Sequences, FiniteSets, TLC

VARIABLES
    argv,       \* the input module paths (process.argv.slice(2)), as file ids
    content,    \* what the type checker sees in each file
    mainpc,     \* main: "map" (starting pipelines), "await", "returned", "rejected"
    pipe,       \* the pipeline of each input position
    dirs,       \* scratch directories on disk, <<pipeline, descriptor index>>
    js,         \* the emitted script file of each input path
    stdout,     \* chunks written to standard output
    stderr,     \* lines written to standard error
    exitCode,   \* the process's exit code, -1 while it runs
    clash,      \* accesses to another pipeline's emitted script file
    proc,       \* one marked declaration on its way to a statement
    call,       \* one call of a function of the library: input and outcome
    adapter,    \* an adapter of the test library and the calls made on it
    run         \* one input path, its files and what was imported and removed

vars == <<argv, content, mainpc, pipe, dirs, js, stdout, stderr, exitCode, clash,
          proc, call, adapter, run>>

---------------------------------------------------------------------------
(* Bounds *)

MaxDecls == 2       \* top-level declarations per module
MaxParams == 3      \* call-signature parameters per declaration

Files == {1, 2}     \* distinct input paths

\* The input lists, up to renaming of the paths: none, one module, the same
\* module twice, two different modules.
Argvs == {<<>>, <<1>>, <<1, 1>>, <<1, 2>>}

---------------------------------------------------------------------------
(* JavaScript values *)

Str(s) == [typeof |-> "string", s |-> s, n |-> 0]
Num(n) == [typeof |-> "number", s |-> "", n |-> n]
Fn(name) == [typeof |-> "function", s |-> name, n |-> 0]
Obj(class) == [typeof |-> "object", s |-> class, n |-> 0]
Undef == [typeof |-> "undefined", s |-> "", n |-> 0]

isString(x) == x.typeof = "string"

\* What `a || b` tests.
Truthy(x) ==
    CASE x.typeof = "undefined" -> FALSE
      [] x.typeof = "string"    -> x.s # ""
      [] x.typeof = "number"    -> x.n # 0
      [] OTHER                  -> TRUE

\* The properties every object literal inherits from Object.prototype (the
\* ones the inputs below name).
ObjectPrototype ==
    [constructor |-> Fn("Object"), toString |-> Fn("toString"),
     valueOf |-> Fn("valueOf"), __proto__ |-> Obj("Object")]

\* obj[key]: an own property, else an inherited one, else undefined.
Get(obj, key) ==
    IF key \in DOMAIN obj THEN obj[key]
    ELSE IF key \in DOMAIN ObjectPrototype THEN ObjectPrototype[key]
    ELSE Undef

\* String(x), as a template literal and a property key convert a value.
String(x) ==
    CASE x.typeof = "string"    -> x.s
      [] x.typeof = "number"    -> ToString(x.n)
      [] x.typeof = "function"  -> "function " \o x.s \o "() { [native code] }"
      [] x.typeof = "object"    -> "[object " \o x.s \o "]"
      [] OTHER                  -> "undefined"

---------------------------------------------------------------------------
(* Modules as the type checker presents them *)

STORED_PROCEDURE_TAG == "sf_stored_procedure"

\* A JSDoc comment: its tags, or no tags property at all (ts.JSDoc.tags is
\* optional and is left undefined for a comment without tags).
Doc(tagNames) == [defined |-> TRUE, tags |-> tagNames]
NoTagsDoc == [defined |-> FALSE, tags |-> <<>>]

\* A top-level node: fn (ts.isFunctionDeclaration), its JSDoc comments, the
\* number of call signatures of its type.  The shapes: a tagged variable
\* statement, a function without documentation, a function whose
\* documentation has no tags, a function with other tags, a marked function,
\* a marked overloaded function.
DeclShapes ==
    { [fn |-> FALSE, docs |-> <<Doc(<<STORED_PROCEDURE_TAG>>)>>, nsigs |-> 0],
      [fn |-> TRUE,  docs |-> <<>>,                              nsigs |-> 1],
      [fn |-> TRUE,  docs |-> <<NoTagsDoc>>,                     nsigs |-> 1],
      [fn |-> TRUE,  docs |-> <<Doc(<<"param">>)>>,              nsigs |-> 1],
      [fn |-> TRUE,  docs |-> <<Doc(<<"param", STORED_PROCEDURE_TAG>>)>>, nsigs |-> 1],
      [fn |-> TRUE,  docs |-> <<Doc(<<STORED_PROCEDURE_TAG>>)>>, nsigs |-> 2] }

\* A call-signature parameter or return value as serializeSignature gives
\* it: the name as its characters, the type as checker.typeToString prints it.
Sym(chars, type) == [name |-> chars, type |-> type]

\* The modules of a batch run declare every function as
\* (snowflake: Snowflake): string, the marker tag without a comment.
Named(shape, n) ==
    [fn |-> shape.fn, docs |-> shape.docs, nsigs |-> shape.nsigs, name |-> n,
     params |-> <<Sym(<<"s", "f">>, "Snowflake")>>, returnType |-> "string",
     comment |-> Undef]

\* Declaration lists of length 0..MaxDecls; the declaration at position n is
\* named n.
DeclLists ==
    UNION { { [n \in 1..len |-> Named(s[n], n)] : s \in [1..len -> DeclShapes] }
            : len \in 0..MaxDecls }

\* problems: what the type checker reports: "none", "pre" (pre-emit
\* diagnostics, which also block the emit: noEmitOnError) or "emit"
\* (reported by the emit alone).  A file that does not load has no
\* declarations and a pre-emit diagnostic.
Contents ==
    { [loads |-> TRUE, decls |-> d, problems |-> p] :
        d \in DeclLists, p \in {"none", "pre", "emit"} }
    \cup { [loads |-> FALSE, decls |-> <<>>, problems |-> "pre"] }

Unused == [loads |-> FALSE, decls |-> <<>>, problems |-> "pre"]

---------------------------------------------------------------------------
(* Diagnostics *)

None == [kind |-> "none", val |-> <<>>]
Codes(s) == [kind |-> "codes", val |-> s]
Script(s) == [kind |-> "script", val |-> <<s>>]
Diagnostics(messages) == [kind |-> "diag", val |-> messages]

NoErr == <<"", 0, 0>>

isDiagnostics(x) == x.kind = "diag"

getPreEmitDiagnostics(f) ==
    IF content[f].problems = "pre" THEN <<<<"ts", f, 1>>>> ELSE <<>>

\* program.emit(): skipped when any problem is reported.
emitResult(f) ==
    [emitSkipped |-> content[f].problems # "none",
     diagnostics |->
        CASE content[f].problems = "pre"  -> <<<<"ts", f, 1>>>>
          [] content[f].problems = "emit" -> <<<<"emit", f, 1>>>>
          [] OTHER -> <<>>]

diagnostics(tsDiagnostics) == Diagnostics(tsDiagnostics)

---------------------------------------------------------------------------
(* Declaration scanner and descriptor builder *)

RECURSIVE Flatten(_)
Flatten(ss) == IF ss = <<>> THEN <<>> ELSE Head(ss) \o Flatten(Tail(ss))

Least(S) == CHOOSE x \in S : \A y \in S : x <= y

\* The JavaScript value undefined, as an element of a tag array.
Undefined == "<undefined>"

\* comments.flatMap(jsdoc => jsdoc.tags): a comment's tags are spliced in;
\* the undefined of a comment without tags is kept as an element.
jsTags(node) ==
    Flatten([n \in 1..Len(node.docs) |->
        IF node.docs[n].defined THEN node.docs[n].tags ELSE <<Undefined>>])

\* ts.isFunctionDeclaration(node) && jsTags(node).some(tag =>
\* tag.tagName.escapedText === STORED_PROCEDURE_TAG): "true", "false", or
\* "TypeError" when some reads tagName of an undefined element before it
\* has found the tag.
isStoredProcedure(node) ==
    IF ~node.fn THEN "false"
    ELSE LET tags == jsTags(node)
             hit == { t \in 1..Len(tags) : tags[t] = STORED_PROCEDURE_TAG }
             und == { t \in 1..Len(tags) : tags[t] = Undefined }
         IN  IF und # {} /\ (hit = {} \/ Least(und) < Least(hit)) THEN "TypeError"
             ELSE IF hit # {} THEN "true"
             ELSE "false"

mapToSQL(dataType) ==
    LET map == [string  |-> Str("STRING"),
                number  |-> Str("NUMBER"),
                Date    |-> Str("TIMESTAMP_LTZ"),
                boolean |-> Str("BOOLEAN"),
                object  |-> Str("VARIANT"),
                array   |-> Str("ARRAY"),
                json    |-> Str("VARIANT")]
    IN  IF Truthy(Get(map, dataType)) THEN Get(map, dataType) ELSE map["object"]

\* enum Rights, with its reverse mapping.
Rights ==
    [NOT_SPECIFIED |-> Num(0), CALLER |-> Num(1), OWNER |-> Num(2)]
    @@ ("0" :> Str("NOT_SPECIFIED")) @@ ("1" :> Str("CALLER")) @@ ("2" :> Str("OWNER"))

runAs(tag) ==
    LET map == [caller |-> Rights.CALLER, owner |-> Rights.OWNER]
        comment == IF isString(tag.comment) THEN tag.comment.s ELSE ""
    IN  IF Truthy(Get(map, comment)) THEN Get(map, comment) ELSE Rights.NOT_SPECIFIED

\* jsTags(decl).find(tag => tag.tagName.escapedText === STORED_PROCEDURE_TAG)
\* of an eligible declaration: the marker tag with its trailing comment.
storedProcedureTag(decl) == [tagName |-> STORED_PROCEDURE_TAG, comment |-> decl.comment]

UpperChar(c) ==
    CASE c = "f" -> "F" [] c = "g" -> "G" [] c = "m" -> "M"
      [] c = "n" -> "N" [] c = "s" -> "S"
      [] OTHER -> c

\* String.prototype.toUpperCase, on the characters of a name.
toUpperCase(chars) == [c \in 1..Len(chars) |-> UpperChar(chars[c])]

\* The characters of a name as one string.
RECURSIVE Text(_)
Text(chars) == IF chars = <<>> THEN "" ELSE Head(chars) \o Text(Tail(chars))

\* A slice that does not drop anything: slice(0) for slice(1).
sliceFromStart(array, start) == array

\* Array.prototype.slice(start): the elements from index start (0-based) on.
slice(array, start) == SubSeq(array, start + 1, Len(array))

\* The descriptor of one eligible declaration, or the Error it throws.
storedProcedure(decl) ==
    IF decl.nsigs # 1
    THEN [threw |-> TRUE, err |-> <<"signatures", decl.name, decl.nsigs>>,
          sp |-> [name |-> decl.name, params |-> <<>>, returnType |-> Undef,
                  rights |-> Undef]]
    ELSE LET ps == slice(decl.params, 1)
         IN  [threw |-> FALSE, err |-> NoErr,
              sp |-> [name |-> decl.name,
                      params |-> [n \in 1..Len(ps) |->
                                    [name |-> Text(toUpperCase(ps[n].name)),
                                     type |-> mapToSQL(ps[n].type)]],
                      returnType |-> IF decl.returnType # "void"
                                     THEN mapToSQL(decl.returnType)
                                     ELSE Str("VARIANT NULL"),
                      rights |-> runAs(storedProcedureTag(decl))]]

\* children.filter(isStoredProcedure).map(n => storedProcedure(checker, n)):
\* the filter runs over every child first and throws where isStoredProcedure
\* throws; the map then throws at the first declaration whose descriptor
\* throws.
storedProcedures(decls) ==
    LET isTrue(n) == isStoredProcedure(n) = "true"
        el == SelectSeq(decls, isTrue)
        r  == [n \in 1..Len(el) |-> storedProcedure(el[n])]
        bad == { n \in 1..Len(el) : r[n].threw }
    IN  IF \E n \in 1..Len(decls) : isStoredProcedure(decls[n]) = "TypeError"
        THEN [threw |-> TRUE, err |-> <<"TypeError", 0, 0>>, sprocs |-> <<>>]
        ELSE IF bad # {}
        THEN [threw |-> TRUE, err |-> r[Least(bad)].err, sprocs |-> <<>>]
        ELSE [threw |-> FALSE, err |-> NoErr,
              sprocs |-> [n \in 1..Len(el) |-> r[n].sp]]

---------------------------------------------------------------------------
(* Pipelines *)

Pipes == 1..Len(argv)

Idle ==
    [pc |-> "idle", sprocs |-> <<>>, k |-> 0, codes |-> <<>>, bundle |-> None,
     open |-> FALSE, packed |-> None, result |-> None, err |-> NoErr,
     emits |-> 0, mkdtemps |-> 0, calls |-> 0, closes |-> 0]

Ended(i) == pipe[i].pc \in {"done", "rejected"}
Started(i) == pipe[i].pc # "idle"
InFlight(i) == Started(i) /\ ~Ended(i)
Rejected == { i \in Pipes : pipe[i].pc = "rejected" }

\* The pipeline i still needs the script it emitted.
Using(i) == InFlight(i) /\ pipe[i].emits > 0

\* The statement pack renders for descriptor sp and the bundled script.
spCode(f, sp, bundle) == <<"sql", f, sp.name, bundle.val[1]>>

\* What the bundler's generate step returns for the entry script of sp.
bundleOf(f, sp) == <<"bundle", f, sp.name>>

\* No declaration is followed on its own during a batch run.
NoProc ==
    [step |-> "none", decl |-> Named([fn |-> FALSE, docs |-> <<>>, nsigs |-> 0], 0),
     sp |-> [name |-> 0, params |-> <<>>, returnType |-> Undef, rights |-> Undef],
     useJs |-> <<>>, bundle |-> <<>>, spCode |-> <<>>]

\* No function of the library is called during a batch run.
NoCall == [fn |-> "none", in |-> [kind |-> "none"], out |-> [kind |-> "none"]]

\* No adapter is made during a batch run.
NoAdapter == [class |-> "none"]

\* No path is followed on its own during a batch run.
NoRun == [pc |-> "none"]

Init ==
    /\ argv \in Argvs
    /\ content \in [Files -> Contents]
    /\ \A f \in Files :
          (\A i \in 1..Len(argv) : argv[i] # f) => content[f] = Unused
    /\ mainpc = "map"
    /\ pipe = [i \in 1..Len(argv) |-> Idle]
    /\ dirs = {}
    /\ js = [f \in Files |-> [exists |-> FALSE, writer |-> 0]]
    /\ stdout = <<>>
    /\ stderr = <<>>
    /\ exitCode = -1
    /\ clash = {}
    /\ proc = NoProc
    /\ call = NoCall
    /\ adapter = NoAdapter
    /\ run = NoRun

\* compile up to its first await, run inside fileNames.map: load, scan,
\* emit, and pack up to the mkdtemp of its first descriptor.
compileSync(i) ==
    LET f  == argv[i]
        c  == content[f]
        sc == storedProcedures(c.decls)
        em == emitResult(f)
    IN  IF ~c.loads
        THEN [Idle EXCEPT !.pc = "done",
                          !.result = diagnostics(getPreEmitDiagnostics(f))]
        ELSE IF sc.threw
        THEN [Idle EXCEPT !.pc = "rejected", !.err = sc.err]
        ELSE IF Len(sc.sprocs) = 0
        THEN [Idle EXCEPT !.pc = "done", !.result = Codes(<<>>)]
        ELSE IF em.emitSkipped
        THEN [Idle EXCEPT !.pc = "done", !.sprocs = sc.sprocs, !.emits = 1,
                          !.result = diagnostics(getPreEmitDiagnostics(f)
                                                 \o em.diagnostics)]
        ELSE [Idle EXCEPT !.pc = "mkdtemp", !.sprocs = sc.sprocs, !.k = 1,
                          !.emits = 1, !.mkdtemps = 1]

\* A compile that emits before it scans the declarations: the emitted
\* script is written whenever emit is not skipped.
StartEmittingFirst(i) ==
    /\ mainpc = "map"
    /\ i \in Pipes
    /\ pipe[i].pc = "idle"
    /\ \A j \in 1..(i - 1) : pipe[j].pc # "idle"
    /\ LET p == compileSync(i)
           f == argv[i]
           wrote == content[f].loads /\ ~emitResult(f).emitSkipped
       IN  /\ pipe' = [pipe EXCEPT ![i] = p]
           /\ js' = IF wrote
                    THEN [js EXCEPT ![f] = [exists |-> TRUE, writer |-> i]]
                    ELSE js
           /\ clash' = IF wrote /\ js[f].exists /\ js[f].writer # i
                       THEN clash \cup {<<"overwrite", i, js[f].writer>>}
                       ELSE clash
    /\ UNCHANGED <<run, adapter, call, proc, argv, content, mainpc, dirs, stdout, stderr, exitCode>>

\* main, line 320: fileNames.map(f => compile(call_rollup, paths, f)) starts
\* the pipelines in input order.
Start(i) ==
    /\ mainpc = "map"
    /\ i \in Pipes
    /\ pipe[i].pc = "idle"
    /\ \A j \in 1..(i - 1) : pipe[j].pc # "idle"
    /\ LET p == compileSync(i)
           f == argv[i]
           wrote == p.pc = "mkdtemp"
       IN  /\ pipe' = [pipe EXCEPT ![i] = p]
           /\ js' = IF wrote
                    THEN [js EXCEPT ![f] = [exists |-> TRUE, writer |-> i]]
                    ELSE js
           /\ clash' = IF wrote /\ js[f].exists /\ js[f].writer # i
                       THEN clash \cup {<<"overwrite", i, js[f].writer>>}
                       ELSE clash
    /\ UNCHANGED <<run, adapter, call, proc, argv, content, mainpc, dirs, stdout, stderr, exitCode>>

\* main reaches the await of Promise.all.
Await ==
    /\ mainpc = "map"
    /\ \A i \in Pipes : pipe[i].pc # "idle"
    /\ mainpc' = "await"
    /\ UNCHANGED <<run, adapter, call, proc, argv, content, pipe, dirs, js, stdout, stderr, exitCode, clash>>

\* A pipeline's continuation runs only while the process lives: a rejected
\* pipeline rejects Promise.all and main at once.
Running == mainpc = "await" /\ Rejected = {}

Set(i, p) == pipe' = [pipe EXCEPT ![i] = p]

\* pack, line 237-238: the scratch directory exists; call_rollup starts and
\* writes the entry script.
MkdtempDone(i) ==
    /\ Running
    /\ i \in Pipes
    /\ pipe[i].pc = "mkdtemp"
    /\ dirs' = dirs \cup {<<i, pipe[i].k>>}
    /\ Set(i, [pipe[i] EXCEPT !.pc = "writeFile", !.calls = @ + 1])
    /\ UNCHANGED <<run, adapter, call, proc, argv, content, mainpc, js, stdout, stderr, exitCode, clash>>

\* call_rollup, line 288-302: the entry script is written, or writeFile
\* throws.
WriteFileDone(i, ok) ==
    /\ Running
    /\ i \in Pipes
    /\ pipe[i].pc = "writeFile"
    /\ Set(i, IF ok
              THEN [pipe[i] EXCEPT !.pc = "rollup"]
              ELSE [pipe[i] EXCEPT !.pc = "rejected",
                       !.err = <<"writeFile", argv[i], pipe[i].sprocs[pipe[i].k].name>>])
    /\ UNCHANGED <<run, adapter, call, proc, argv, content, mainpc, dirs, js, stdout, stderr, exitCode, clash>>

\* call_rollup, line 302: rollup.rollup resolves the module graph from the
\* entry script, which imports the emitted script; it throws when that fails.
RollupDone(i, ok) ==
    /\ Running
    /\ i \in Pipes
    /\ pipe[i].pc = "rollup"
    /\ ok => js[argv[i]].exists
    /\ Set(i, IF ok
              THEN [pipe[i] EXCEPT !.pc = "generate", !.open = TRUE]
              ELSE [pipe[i] EXCEPT !.pc = "rejected",
                       !.err = <<"rollup", argv[i], pipe[i].sprocs[pipe[i].k].name>>])
    /\ clash' = IF js[argv[i]].exists /\ js[argv[i]].writer # i
                THEN clash \cup {<<"read", i, js[argv[i]].writer>>}
                ELSE clash
    /\ UNCHANGED <<run, adapter, call, proc, argv, content, mainpc, dirs, js, stdout, stderr, exitCode>>

\* A call_rollup without the finally of line 309-311: when generate throws,
\* the Diagnostics are returned with the build left open.
GenerateDoneWithoutFinally(i, ok) ==
    /\ Running
    /\ i \in Pipes
    /\ pipe[i].pc = "generate"
    /\ LET f == argv[i]
           sp == pipe[i].sprocs[pipe[i].k]
       IN  Set(i, IF ok
                  THEN [pipe[i] EXCEPT !.pc = "close", !.bundle = Script(bundleOf(f, sp))]
                  ELSE [pipe[i] EXCEPT !.pc = "rmJs",
                           !.bundle = Diagnostics(<<<<"generate", f, sp.name>>>>),
                           !.packed = Diagnostics(<<<<"generate", f, sp.name>>>>)])
    /\ UNCHANGED <<run, adapter, call, proc, argv, content, mainpc, dirs, js, stdout, stderr, exitCode, clash>>

\* call_rollup, line 303-309: bundle.generate returns the chunks, or its
\* error is caught and returned as Diagnostics.
GenerateDone(i, ok) ==
    /\ Running
    /\ i \in Pipes
    /\ pipe[i].pc = "generate"
    /\ LET f == argv[i]
           sp == pipe[i].sprocs[pipe[i].k]
       IN  Set(i, [pipe[i] EXCEPT !.pc = "close",
                      !.bundle = IF ok THEN Script(bundleOf(f, sp))
                                 ELSE Diagnostics(<<<<"generate", f, sp.name>>>>)])
    /\ UNCHANGED <<run, adapter, call, proc, argv, content, mainpc, dirs, js, stdout, stderr, exitCode, clash>>

\* A pack that renders the statement on whatever the bundler returned: the
\* isDiagnostics test of line 239-241 is missing.
CloseDoneUnchecked(i) ==
    /\ Running
    /\ i \in Pipes
    /\ pipe[i].pc = "close"
    /\ Set(i, [pipe[i] EXCEPT !.open = FALSE, !.closes = @ + 1, !.pc = "rmTmp"])
    /\ UNCHANGED <<run, adapter, call, proc, argv, content, mainpc, dirs, js, stdout, stderr, exitCode, clash>>

\* call_rollup, line 310, then pack, line 239-252: the build is closed and
\* the bundler returns.  Diagnostics end pack at once and compile goes on to
\* remove the emitted script; a script is rendered and the scratch
\* directory's removal starts.
CloseDone(i) ==
    /\ Running
    /\ i \in Pipes
    /\ pipe[i].pc = "close"
    /\ LET p == [pipe[i] EXCEPT !.open = FALSE, !.closes = @ + 1]
       IN  Set(i, IF isDiagnostics(p.bundle)
                  THEN [p EXCEPT !.pc = "rmJs", !.packed = p.bundle]
                  ELSE [p EXCEPT !.pc = "rmTmp"])
    /\ UNCHANGED <<run, adapter, call, proc, argv, content, mainpc, dirs, js, stdout, stderr, exitCode, clash>>

\* A pack that does not remove the scratch directory before it goes on: the
\* rm of line 252 is missing.
RmTmpDoneKeeping(i) ==
    /\ Running
    /\ i \in Pipes
    /\ pipe[i].pc = "rmTmp"
    /\ LET p == pipe[i]
           sqlCodes == Append(p.codes, spCode(argv[i], p.sprocs[p.k], p.bundle))
       IN  Set(i, IF p.k < Len(p.sprocs)
                  THEN [p EXCEPT !.codes = sqlCodes, !.k = @ + 1,
                                 !.bundle = None, !.pc = "mkdtemp",
                                 !.mkdtemps = @ + 1]
                  ELSE [p EXCEPT !.codes = sqlCodes, !.bundle = None,
                                 !.packed = Codes(sqlCodes), !.pc = "rmJs"])
    /\ UNCHANGED <<run, adapter, call, proc, argv, content, mainpc, dirs, js, stdout, stderr, exitCode, clash>>

\* A pack that returns from inside the loop: `return sqlCodes` one line too
\* early.
RmTmpDoneReturning(i) ==
    /\ Running
    /\ i \in Pipes
    /\ pipe[i].pc = "rmTmp"
    /\ dirs' = dirs \ {<<i, pipe[i].k>>}
    /\ LET p == pipe[i]
           sqlCodes == Append(p.codes, spCode(argv[i], p.sprocs[p.k], p.bundle))
       IN  Set(i, [p EXCEPT !.codes = sqlCodes, !.bundle = None,
                            !.packed = Codes(sqlCodes), !.pc = "rmJs"])
    /\ UNCHANGED <<run, adapter, call, proc, argv, content, mainpc, js, stdout, stderr, exitCode, clash>>

\* A pack that renders the name of the scratch directory, which differs from
\* pipeline to pipeline, into the statement.
RmTmpDoneNamingDir(i) ==
    /\ Running
    /\ i \in Pipes
    /\ pipe[i].pc = "rmTmp"
    /\ dirs' = dirs \ {<<i, pipe[i].k>>}
    /\ LET p == pipe[i]
           sqlCodes == Append(p.codes, spCode(i, p.sprocs[p.k], p.bundle))
       IN  Set(i, IF p.k < Len(p.sprocs)
                  THEN [p EXCEPT !.codes = sqlCodes, !.k = @ + 1,
                                 !.bundle = None, !.pc = "mkdtemp",
                                 !.mkdtemps = @ + 1]
                  ELSE [p EXCEPT !.codes = sqlCodes, !.bundle = None,
                                 !.packed = Codes(sqlCodes), !.pc = "rmJs"])
    /\ UNCHANGED <<run, adapter, call, proc, argv, content, mainpc, js, stdout, stderr, exitCode, clash>>

\* pack, line 252-255: the scratch directory is removed, the statement is
\* pushed, and the loop goes on to the next descriptor or returns.
RmTmpDone(i) ==
    /\ Running
    /\ i \in Pipes
    /\ pipe[i].pc = "rmTmp"
    /\ dirs' = dirs \ {<<i, pipe[i].k>>}
    /\ LET p == pipe[i]
           sqlCodes == Append(p.codes, spCode(argv[i], p.sprocs[p.k], p.bundle))
       IN  Set(i, IF p.k < Len(p.sprocs)
                  THEN [p EXCEPT !.codes = sqlCodes, !.k = @ + 1,
                                 !.bundle = None, !.pc = "mkdtemp",
                                 !.mkdtemps = @ + 1]
                  ELSE [p EXCEPT !.codes = sqlCodes, !.bundle = None,
                                 !.packed = Codes(sqlCodes), !.pc = "rmJs"])
    /\ UNCHANGED <<run, adapter, call, proc, argv, content, mainpc, js, stdout, stderr, exitCode, clash>>

\* compile, line 213-218: the emitted script is removed and compile returns
\* what pack returned; rm throws when the file is gone.
RmJsDone(i) ==
    /\ Running
    /\ i \in Pipes
    /\ pipe[i].pc = "rmJs"
    /\ LET f == argv[i]
           others == { j \in Pipes : j # i /\ Using(j) /\ argv[j] = f }
       IN  IF js[f].exists
           THEN /\ js' = [js EXCEPT ![f] = [exists |-> FALSE, writer |-> 0]]
                /\ Set(i, [pipe[i] EXCEPT !.pc = "done", !.result = pipe[i].packed])
                /\ clash' = clash
                     \cup { <<"delete", i, j>> : j \in others }
                     \cup (IF js[f].writer # i
                           THEN {<<"delete", i, js[f].writer>>} ELSE {})
           ELSE /\ js' = js
                /\ Set(i, [pipe[i] EXCEPT !.pc = "rejected", !.err = <<"ENOENT", f, 0>>])
                /\ clash' = clash
    /\ UNCHANGED <<run, adapter, call, proc, argv, content, mainpc, dirs, stdout, stderr, exitCode>>

---------------------------------------------------------------------------
(* main *)

RECURSIVE Join(_, _)
Join(ss, sep) ==
    IF ss = <<>> THEN <<>>
    ELSE IF Len(ss) = 1 THEN <<Head(ss)>>
    ELSE <<Head(ss), sep>> \o Join(Tail(ss), sep)

Sep3 == <<"nl", 3, 0>>
Newline == <<"nl", 1, 0>>

compilationResults == [i \in 1..Len(argv) |-> pipe[i].result]

\* main, line 321-328: every pipeline is fulfilled; report and
\* process.exit(code).
Aggregate ==
    /\ mainpc = "await"
    /\ \A i \in Pipes : pipe[i].pc = "done"
    /\ LET errors == SelectSeq(compilationResults, isDiagnostics)
           texts == Flatten([i \in 1..Len(argv) |->
                        IF isDiagnostics(compilationResults[i]) THEN <<>>
                        ELSE compilationResults[i].val])
           nonEmpty(s) == 0 < Len(s)
       IN  IF 0 < Len(errors)
           THEN /\ stderr' = Flatten([n \in 1..Len(errors) |-> errors[n].val])
                /\ stdout' = stdout
                /\ exitCode' = 1
           ELSE /\ stdout' = Join(SelectSeq(texts, nonEmpty), Sep3) \o <<Newline>>
                /\ stderr' = stderr
                /\ exitCode' = 0
    /\ mainpc' = "returned"
    /\ UNCHANGED <<run, adapter, call, proc, argv, content, pipe, dirs, js, clash>>

\* main, line 320 and 331: Promise.all rejects with the first rejection,
\* main rejects, and nothing handles the rejection of
\* main(process.argv).then(process.exit): the process dies with the error
\* on standard error and exit code 1, whatever the other pipelines are
\* doing.  A filesystem call in flight may or may not have reached the disk.
Crash ==
    /\ mainpc = "await"
    /\ Rejected # {}
    /\ \E done \in SUBSET { i \in Pipes : pipe[i].pc \in {"mkdtemp", "rmTmp", "rmJs"} } :
          /\ dirs' = (dirs \cup { <<i, pipe[i].k>> : i \in { j \in done : pipe[j].pc = "mkdtemp" } })
                       \ { <<i, pipe[i].k>> : i \in { j \in done : pipe[j].pc = "rmTmp" } }
          /\ js' = [f \in Files |->
                      IF \E i \in done : pipe[i].pc = "rmJs" /\ argv[i] = f
                      THEN [exists |-> FALSE, writer |-> 0] ELSE js[f]]
    /\ stderr' = <<pipe[Least(Rejected)].err>>
    /\ exitCode' = 1
    /\ mainpc' = "rejected"
    /\ UNCHANGED <<run, adapter, call, proc, argv, content, pipe, stdout, clash>>

Next ==
    \/ \E i \in Pipes : Start(i)
    \/ Await
    \/ \E i \in Pipes : MkdtempDone(i)
    \/ \E i \in Pipes, ok \in BOOLEAN : WriteFileDone(i, ok)
    \/ \E i \in Pipes, ok \in BOOLEAN : RollupDone(i, ok)
    \/ \E i \in Pipes, ok \in BOOLEAN : GenerateDone(i, ok)
    \/ \E i \in Pipes : CloseDone(i)
    \/ \E i \in Pipes : RmTmpDone(i)
    \/ \E i \in Pipes : RmJsDone(i)
    \/ Aggregate
    \/ Crash

Spec == Init /\ [][Next]_vars

Exited == mainpc \in {"returned", "rejected"}

---------------------------------------------------------------------------
(* One declaration, from its call signature to its statement *)

\* Texts are sequences of lines, a line is a sequence of string pieces: the
\* pieces of the template literals and the values interpolated into them.

\* The names a parameter can have, as characters.
SourceNames == { <<"s", "f">>, <<"m", "s", "g">>, <<"M", "s", "g">>, <<"n", "_", "1">> }

\* Type names as checker.typeToString prints them.
ParamTypes == {"string", "number[]", "constructor"}
TypeNames ==
    {"string", "number", "Date", "boolean", "object", "array", "json", "void",
     "any", "number[]", "any[][]", "Array<string>", "", "constructor", "toString",
     "__proto__"}

\* tag.comment: absent, a node array (a comment with an inline link), or
\* the text after the tag name.
TagComments ==
    {Undef, Obj("NodeArray"), Str(""), Str("caller"), Str("owner"), Str("Caller"),
     Str("constructor"), Str("toString")}

\* Parameter lists of length 0..MaxParams with distinct names.
ParamLists ==
    UNION { { ps \in [1..len -> { Sym(c, t) : c \in SourceNames, t \in ParamTypes }] :
                \A a, b \in 1..len : a # b => ps[a].name # ps[b].name }
            : len \in 0..MaxParams }

\* A marked function f with one call signature.
ProcDecls ==
    { [fn |-> TRUE, docs |-> <<Doc(<<STORED_PROCEDURE_TAG>>)>>, nsigs |-> 1,
       name |-> "f", params |-> ps, returnType |-> rt, comment |-> c] :
        ps \in ParamLists, rt \in TypeNames, c \in TagComments }

InitProc ==
    /\ argv = <<>>
    /\ content = [f \in Files |-> Unused]
    /\ mainpc = "map"
    /\ pipe = <<>>
    /\ dirs = {}
    /\ js = [f \in Files |-> [exists |-> FALSE, writer |-> 0]]
    /\ stdout = <<>>
    /\ stderr = <<>>
    /\ exitCode = -1
    /\ clash = {}
    /\ proc \in { [NoProc EXCEPT !.step = "decl", !.decl = d] : d \in ProcDecls }
    /\ call = NoCall
    /\ adapter = NoAdapter
    /\ run = NoRun

\* pack, line 226-228.
sqlRights(rights) ==
    IF rights = Rights.NOT_SPECIFIED THEN ""
    ELSE " execute as " \o String(Get(Rights, String(rights)))

\* pack, line 230-233.
sqlSignature(p) ==
    LET params == [n \in 1..Len(p.params) |->
                      <<p.params[n].name, " ", String(p.params[n].type)>>]
    IN  <<p.name, "(">> \o Flatten(Join(params, <<", ">>))
            \o <<")", " returns ", String(p.returnType)>>

\* An entry script that passes the connection object last.
entryScriptConnectionLast(p) ==
    LET args == Flatten([n \in 1..Len(p.params) |-> <<p.params[n].name, ", ">>])
                    \o <<"snowflake">>
    IN  <<"import {", p.name, "} from '../", "module.js", "'", "\n",
          "__result", " = ", p.name, "(">> \o args \o <<")">>

\* An entry script that assigns the call to a variable of another name.
entryScriptOtherResult(p) ==
    LET args == <<"snowflake">>
                    \o Flatten([n \in 1..Len(p.params) |-> <<", ", p.params[n].name>>])
    IN  <<"import {", p.name, "} from '../", "module.js", "'", "\n",
          "result", " = ", p.name, "(">> \o args \o <<")">>

\* call_rollup, line 287-291: the text written to tmpDir/use.js, two lines.
entryScript(p) ==
    LET args == <<"snowflake">>
                    \o Flatten([n \in 1..Len(p.params) |-> <<", ", p.params[n].name>>])
    IN  <<"import {", p.name, "} from '../", "module.js", "'", "\n",
          "__result", " = ", p.name, "(">> \o args \o <<")">>

\* The code of the imported module as the emit wrote it: one line, or
\* several with LF and CRLF line ends and an empty line.
ModuleCodes ==
    { <<"function f() {}">>,
      <<"const h = 1;", "\r\n", "\n", "function f() {}">> }

\* What the bundler makes of the entry script: the import is replaced by
\* the imported module's code, the statements stay as they are; the chunk
\* ends with a line end.
generated(code, script) ==
    LET nl == Least({ k \in 1..Len(script) : script[k] = "\n" })
    IN  code \o <<"\n", "\n">> \o SubSeq(script, nl + 1, Len(script)) \o <<"\n">>

\* A split at LF only: split('\n') for split(/\r?\n/).
RECURSIVE splitAtLF(_)
splitAtLF(text) ==
    LET ends == { k \in 1..Len(text) : text[k] = "\n" }
    IN  IF ends = {} THEN <<text>>
        ELSE <<SubSeq(text, 1, Least(ends) - 1)>>
                 \o splitAtLF(SubSeq(text, Least(ends) + 1, Len(text)))

\* text.split(/\r?\n/): the lines of a text, without their line ends.
RECURSIVE split(_)
split(text) ==
    LET ends == { k \in 1..Len(text) : text[k] \in {"\n", "\r\n"} }
    IN  IF ends = {} THEN <<text>>
        ELSE <<SubSeq(text, 1, Least(ends) - 1)>>
                 \o split(SubSeq(text, Least(ends) + 1, Len(text)))

\* pack, line 243-250.
renderSpCode(p, b) ==
    <<"create or replace procedure ">> \o sqlSignature(p)
        \o <<" language javascript", sqlRights(p.rights), " as $$", "\n",
             "    ", "let ", "__result", " = null;", "\n",
             "\n",
             "    ">> \o Flatten(Join(split(b), <<"\n", "    ">>)) \o <<"\n",
             "    ", "return ", "__result", ";", "\n",
             "$$;">>

\* storedProcedure, line 131-149.
Describe ==
    /\ proc.step = "decl"
    /\ proc' = [proc EXCEPT !.step = "described", !.sp = storedProcedure(proc.decl).sp]
    /\ UNCHANGED <<run, adapter, call, argv, content, mainpc, pipe, dirs, js, stdout, stderr, exitCode,
                   clash>>

\* call_rollup, line 286-291.
WriteEntry ==
    /\ proc.step = "described"
    /\ proc' = [proc EXCEPT !.step = "written", !.useJs = entryScript(proc.sp)]
    /\ UNCHANGED <<run, adapter, call, argv, content, mainpc, pipe, dirs, js, stdout, stderr, exitCode,
                   clash>>

\* call_rollup, line 302-306.
Bundle(code) ==
    /\ proc.step = "written"
    /\ proc' = [proc EXCEPT !.step = "bundled", !.bundle = generated(code, proc.useJs)]
    /\ UNCHANGED <<run, adapter, call, argv, content, mainpc, pipe, dirs, js, stdout, stderr, exitCode,
                   clash>>

\* pack, line 243-250.
Render ==
    /\ proc.step = "bundled"
    /\ proc' = [proc EXCEPT !.step = "rendered",
                            !.spCode = renderSpCode(proc.sp, proc.bundle)]
    /\ UNCHANGED <<run, adapter, call, argv, content, mainpc, pipe, dirs, js, stdout, stderr, exitCode,
                   clash>>

NextProc ==
    \/ Describe
    \/ WriteEntry
    \/ \E code \in ModuleCodes : Bundle(code)
    \/ Render

SpecProc == InitProc /\ [][NextProc]_vars

---------------------------------------------------------------------------
(* One input path, from emit to the removal of the emitted script *)

MaxDirs == 2

\* Paths are sequences of characters.
Ts == <<".", "t", "s">>
Js == <<".", "j", "s">>

\* The input paths: relative paths, as compile's documentation asks for,
\* of up to MaxDirs directories, ending in ".ts" or ".js".
DirNames == {<<"d">>, <<".", ".">>, <<".">>}
BaseNames == {<<"a">>, <<"o", "'", "c">>}
RECURSIVE JoinDirs(_)
JoinDirs(ds) == IF ds = <<>> THEN <<>> ELSE Head(ds) \o <<"/">> \o JoinDirs(Tail(ds))
FileNames ==
    { JoinDirs(ds) \o base \o ext :
        ds \in UNION { [1..n -> DirNames] : n \in 0..MaxDirs },
        base \in BaseNames, ext \in {Ts, Js} }

\* String.prototype.substring and endsWith, for the arguments used.
substring(str, start, end) == SubSeq(str, start + 1, end)
endsWith(str, suffix) ==
    /\ Len(str) >= Len(suffix)
    /\ SubSeq(str, Len(str) - Len(suffix) + 1, Len(str)) = suffix

\* path.resolve and the resolution of a relative import: the segments
\* between the slashes, with "" and "." dropped and ".." leaving the
\* directory before it; a path that starts with a slash starts at the
\* root.
RECURSIVE Segments(_, _)
Segments(path, seg) ==
    IF path = <<>> THEN <<seg>>
    ELSE IF Head(path) = "/" THEN <<seg>> \o Segments(Tail(path), <<>>)
    ELSE Segments(Tail(path), Append(seg, Head(path)))
RECURSIVE Normalize(_, _)
Normalize(dir, segs) ==
    IF segs = <<>> THEN dir
    ELSE IF Head(segs) \in {<<>>, <<".">>} THEN Normalize(dir, Tail(segs))
    ELSE IF Head(segs) = <<".", ".">>
    THEN Normalize(IF dir = <<>> THEN dir ELSE SubSeq(dir, 1, Len(dir) - 1), Tail(segs))
    ELSE Normalize(Append(dir, Head(segs)), Tail(segs))
resolve(dir, path) ==
    IF path # <<>> /\ Head(path) = "/" THEN Normalize(<<>>, Segments(path, <<>>))
    ELSE Normalize(dir, Segments(path, <<>>))

\* process.cwd(), and the scratch directory mkdtemp('temp-') makes in it.
Cwd == <<<<"w">>, <<"c">>>>
tmpDir == <<"t", "e", "m", "p", "-", "X">>

\* A call_rollup that imports the input file itself.
moduleNameOfInput(fileName) == fileName

\* call_rollup, line 286: the path of the emitted script.
moduleName(fileName) == substring(fileName, 0, Len(fileName) - 3) \o Js

\* call_rollup, line 288-291: the module specifier written into use.js
\* between single quotes.
specifier(fileName) == <<".", ".", "/">> \o moduleName(fileName)

\* What the import of use.js names: nothing when the quotes of the
\* specifier do not match, else the file the specifier resolves to from
\* the directory of use.js.
importOf(fileName) ==
    IF \E n \in 1..Len(specifier(fileName)) : specifier(fileName)[n] = "'"
    THEN <<>>
    ELSE <<resolve(Append(Cwd, tmpDir), specifier(fileName))>>

\* compile, line 214-216: the path given to rm, if any.
removeOf(fileName) ==
    IF endsWith(fileName, Ts)
    THEN <<substring(fileName, 0, Len(fileName) - 3) \o Js>>
    ELSE <<>>

\* The input file is on disk; nothing is emitted, imported or removed.
InitRun ==
    /\ argv = <<>>
    /\ content = [f \in Files |-> Unused]
    /\ mainpc = "map"
    /\ pipe = <<>>
    /\ dirs = {}
    /\ js = [f \in Files |-> [exists |-> FALSE, writer |-> 0]]
    /\ stdout = <<>>
    /\ stderr = <<>>
    /\ exitCode = -1
    /\ clash = {}
    /\ proc = NoProc
    /\ call = NoCall
    /\ adapter = NoAdapter
    /\ run \in { [pc |-> "emit", fileName |-> f, files |-> {resolve(Cwd, f)},
                  entry |-> <<>>, imported |-> <<>>, removed |-> <<>>] :
                 f \in FileNames }

Apart ==
    <<argv, content, mainpc, pipe, dirs, js, stdout, stderr, exitCode, clash, proc, call,
      adapter>>

\* compile, line 207-210: program.emit() writes the script next to a ".ts"
\* input, or is skipped; the script of a ".js" input is the input.
EmitScript(ok) ==
    /\ run.pc = "emit"
    /\ run' = IF ok
              THEN [run EXCEPT !.pc = "writeFile",
                      !.files = @ \cup {resolve(Cwd, SubSeq(run.fileName, 1,
                                            Len(run.fileName) - 3) \o Js)}]
              ELSE [run EXCEPT !.pc = "done"]
    /\ UNCHANGED Apart

\* pack, line 237, and call_rollup, line 286-291: the entry script is
\* written into the scratch directory.
WriteUseJs ==
    /\ run.pc = "writeFile"
    /\ run' = [run EXCEPT !.pc = "rollup", !.entry = specifier(run.fileName)]
    /\ UNCHANGED Apart

\* call_rollup, line 302-311, and pack, line 239-255: the bundler reads
\* the module the entry script imports and returns, or throws; it throws
\* when the entry script imports no file that is there.
RollupUseJs(ok) ==
    /\ run.pc = "rollup"
    /\ run' = IF ok /\ importOf(run.fileName) # <<>>
                    /\ importOf(run.fileName)[1] \in run.files
              THEN [run EXCEPT !.pc = "rm", !.imported = importOf(run.fileName)]
              ELSE [run EXCEPT !.pc = "rejected"]
    /\ UNCHANGED Apart

\* compile, line 213-218: the emitted script of a ".ts" input is removed;
\* rm throws when the file is not there.
RemoveScript ==
    /\ run.pc = "rm"
    /\ run' = IF removeOf(run.fileName) = <<>>
              THEN [run EXCEPT !.pc = "done"]
              ELSE IF resolve(Cwd, removeOf(run.fileName)[1]) \in run.files
              THEN [run EXCEPT !.pc = "done",
                      !.files = @ \ {resolve(Cwd, removeOf(run.fileName)[1])},
                      !.removed = <<resolve(Cwd, removeOf(run.fileName)[1])>>]
              ELSE [run EXCEPT !.pc = "rejected"]
    /\ UNCHANGED Apart

NextRun ==
    \/ \E ok \in BOOLEAN : EmitScript(ok)
    \/ WriteUseJs
    \/ \E ok \in BOOLEAN : RollupUseJs(ok)
    \/ RemoveScript

SpecRun == InitRun /\ [][NextRun]_vars

---------------------------------------------------------------------------
(* The library: diagnostic messages *)

MaxDiags == 2
MaxLine == 1
MaxCharacter == 2

\* A source file of the program, and a thrown Error.
SourceFile(fileName) ==
    [typeof |-> "object", s |-> "SourceFile", n |-> 0, fileName |-> fileName]
Err(name, text) ==
    [typeof |-> "object", s |-> "Error", n |-> 0, name |-> name, message |-> text]

\* d.messageText: a string (no next) or a chain of one message and the
\* messages that explain it.
MessageTexts ==
    { [text |-> "Type 'number' is not assignable to type 'string'.", next |-> <<>>],
      [text |-> "Cannot find module 'lib'.", next |-> <<>>],
      [text |-> "No overload matches this call.",
       next |-> <<"Argument of type 'number' is not assignable.">>] }

\* The diagnostics of the type checker: with a file and the line and
\* character (from 0) that ts.getLineAndCharacterOfPosition gives for
\* d.start in it, or without a file.
TsDiagnostic ==
    { [file |-> SourceFile("src/a.ts"), at |-> [line |-> l, character |-> c],
       messageText |-> m] :
        l \in 0..MaxLine, c \in 0..MaxCharacter, m \in MessageTexts }
    \cup { [file |-> Undef, at |-> [line |-> 0, character |-> 0], messageText |-> m] :
             m \in MessageTexts }

\* ts.flattenDiagnosticMessageText(messageText, newLine): the text, and
\* every message of the chain on a line of its own behind two spaces.
flattenDiagnosticMessageText(messageText, newLine) ==
    messageText.text
        \o Text([k \in 1..Len(messageText.next) |->
                    newLine \o "  " \o messageText.next[k]])

\* diagnostics, line 45-47.
message(d) == flattenDiagnosticMessageText(d.messageText, "\n")

\* A fromFile that prints line and character as they are counted, from 0.
fromFileFromZero(d) ==
    LET line == d.at.line
        character == d.at.character
    IN  d.file.fileName \o " (" \o ToString(line) \o "," \o ToString(character)
            \o "): " \o message(d)

\* diagnostics, line 40-43.
fromFile(d) ==
    LET line == d.at.line
        character == d.at.character
    IN  d.file.fileName \o " (" \o ToString(line + 1) \o "," \o ToString(character + 1)
            \o "): " \o message(d)

\* diagnostics, line 49-51, with the messages as text.
messages(tsDiagnostics) ==
    [messages |-> [k \in 1..Len(tsDiagnostics) |->
        LET d == tsDiagnostics[k]
        IN  IF Truthy(d.file) THEN fromFile(d) ELSE message(d)]]

\* What the bundler throws: an Error with its name and message, or a string.
ThrownValues ==
    { Err("Error", "Could not resolve '../module.js' from use.js"),
      Err("RollupError", "Unexpected token"),
      Err("Error", ""),
      Str("out of memory") }

\* `${e}` of line 308: Error.prototype.toString for an Error.
Template(e) ==
    IF e.typeof = "object" /\ e.s = "Error"
    THEN IF e.name = "" THEN e.message
         ELSE IF e.message = "" THEN e.name
         ELSE e.name \o ": " \o e.message
    ELSE String(e)

\* call_rollup, line 307-308.
caught(e) == [messages |-> <<Template(e)>>]

---------------------------------------------------------------------------
(* The library: result sets *)

MaxRows == 2
MaxCols == 2

Null == [typeof |-> "object", s |-> "null", n |-> 0]
Arr(items) == [typeof |-> "object", s |-> "Array", n |-> 0, items |-> items]
Thrown(text) == [typeof |-> "thrown", s |-> text, n |-> 0]

\* The values of the cells: those of the tests.
Cells == {Str("xyzzy"), Num(1)}

\* The rows of an executed statement: R rows of C values each.
Grids(R, C) == [1..R -> [1..C -> Cells]]

\* ResultSetAdapter's constructor: no row loaded (row is <<>> while it is
\* undefined, else holds the loaded row), no row read.
ResultSetAdapter(rows, cols) ==
    [rows |-> rows, cols |-> cols, row |-> <<>>, rowsRead |-> 0]

\* What snowflake.execute returns: a result set nothing has been read of.
ResultSets ==
    UNION { { ResultSetAdapter(rows, C) : rows \in Grids(R, C) } :
                R \in 0..MaxRows, C \in 1..MaxCols }

getColumnCount(rs) == rs.cols
getRowCount(rs) == Len(rs.rows)

\* stmt.getColumns(): the columns of the statement as their names, which
\* differ from column to column; stmt.getColumn(index).getName().
getColumns(rs) == [j \in 1..rs.cols |-> "C" \o ToString(j)]
getName(rs, index) == getColumns(rs)[index + 1]

\* The row the driver hands over is an object with the values under the
\* columns' names: row[key], undefined for a key that names no column.
Property(rs, key) ==
    IF \E j \in 1..rs.cols : getColumns(rs)[j] = key
    THEN rs.row[1][CHOOSE j \in 1..rs.cols : getColumns(rs)[j] = key]
    ELSE Undef

\* A getColumnValue that takes a numeric column as it is, counted from 0.
getColumnValueUntransformed(rs, col) ==
    IF rs.row = <<>>
    THEN Thrown("ResultSet is empty or not prepared (call next() first).")
    ELSE IF isString(col) THEN Property(rs, col.s)
    ELSE IF col.n \notin 0..(rs.cols - 1) THEN Thrown("TypeError")
    ELSE Property(rs, getName(rs, col.n))

\* ResultSetAdapter.transformCol: a string is a name, a number counts from 1.
transformCol(col) == IF isString(col) THEN col ELSE Num(col.n - 1)

\* ResultSetAdapter.getColumnValue: the value the loaded row holds under
\* the name given, or under the name of the column of the number given;
\* stmt.getColumn of a number that is no column is undefined, and getName
\* of it a TypeError.
getColumnValue(rs, col) ==
    IF rs.row = <<>>
    THEN Thrown("ResultSet is empty or not prepared (call next() first).")
    ELSE LET key == transformCol(col)
         IN  IF isString(key) THEN Property(rs, key.s)
             ELSE IF key.n \notin 0..(rs.cols - 1) THEN Thrown("TypeError")
             ELSE Property(rs, getName(rs, key.n))

\* A next that goes on while rowsRead is not beyond the row count; the
\* driver has no row to give at the index of the row count.
nextUpToCount(rs) ==
    IF rs.rowsRead > getRowCount(rs)
    THEN [ret |-> FALSE, rs |-> rs]
    ELSE [ret |-> TRUE,
          rs  |-> [rs EXCEPT !.row = IF rs.rowsRead < getRowCount(rs)
                                     THEN <<rs.rows[rs.rowsRead + 1]>> ELSE <<>>,
                             !.rowsRead = rs.rowsRead + 1]]

\* ResultSetAdapter.next: the result and the adapter after the call.
next(rs) ==
    IF rs.rowsRead >= getRowCount(rs)
    THEN [ret |-> FALSE, rs |-> rs]
    ELSE [ret |-> TRUE,
          rs  |-> [rs EXCEPT !.row = <<rs.rows[rs.rowsRead + 1]>>,
                             !.rowsRead = rs.rowsRead + 1]]

\* A rowToArray that asks for column x instead of x + 1.
rowToArrayFromZero(row) ==
    Arr([k \in 1..getColumnCount(row) |-> LET x == k - 1 IN getColumnValue(row, Num(x))])

\* rowToArray: [...Array(n).keys()] is 0..n-1, and entry x of the result is
\* getColumnValue(x + 1).
rowToArray(row) ==
    Arr([k \in 1..getColumnCount(row) |-> LET x == k - 1 IN getColumnValue(row, Num(x + 1))])

\* A resultsToGrid that collects the iterator's values first and maps them
\* afterwards, [...resultSetIter(result_set)].map(rowToArray): every value
\* is the one result set, read when the cursor has reached its end.
RECURSIVE Drain(_)
Drain(rs) == IF next(rs).ret THEN Drain(next(rs).rs) ELSE rs
resultsToGridCollectFirst(result_set) ==
    [ret |-> Arr([i \in 1..getRowCount(result_set) |-> rowToArray(Drain(result_set))]),
     rs  |-> Drain(result_set)]

\* Array.from(resultSetIter(result_set), rowToArray): the iterator's next
\* advances the result set and yields the result set itself; Array.from
\* applies rowToArray to each value before it asks for the next one.
RECURSIVE ArrayFrom(_, _)
ArrayFrom(rs, acc) ==
    LET step == next(rs)
        done == ~step.ret
    IN  IF done THEN [ret |-> Arr(acc), rs |-> step.rs]
        ELSE ArrayFrom(step.rs, Append(acc, rowToArray(step.rs)))

resultsToGrid(result_set) == ArrayFrom(result_set, <<>>)

\* fetchAll, fetchCell and fetchOne, applied to what snowflake.execute has
\* returned: the value returned and the result set after the call.
fetchAll(results) == resultsToGrid(results)

\* A fetchCell that advances twice before it reads.
fetchCellSecondRow(results) ==
    LET one == next(results)
        two == next(one.rs)
    IN  [ret |-> IF two.ret THEN getColumnValue(two.rs, Num(1)) ELSE Null, rs |-> two.rs]

fetchCell(results) ==
    LET step == next(results)
    IN  [ret |-> IF step.ret THEN getColumnValue(step.rs, Num(1)) ELSE Null, rs |-> step.rs]

fetchOne(result_set) ==
    LET step == next(result_set)
    IN  [ret |-> IF step.ret THEN rowToArray(step.rs) ELSE Null, rs |-> step.rs]

\* The lists of up to MaxDiags diagnostics.
TsDiagnostics == UNION { [1..n -> TsDiagnostic] : n \in 0..MaxDiags }

LibInputs ==
    { [kind |-> "results", rs |-> rs] : rs \in ResultSets }
    \cup { [kind |-> "tsDiagnostics", list |-> l] : l \in TsDiagnostics }
    \cup { [kind |-> "thrown", e |-> e] : e \in ThrownValues }

InitLib ==
    /\ argv = <<>>
    /\ content = [f \in Files |-> Unused]
    /\ mainpc = "map"
    /\ pipe = <<>>
    /\ dirs = {}
    /\ js = [f \in Files |-> [exists |-> FALSE, writer |-> 0]]
    /\ stdout = <<>>
    /\ stderr = <<>>
    /\ exitCode = -1
    /\ clash = {}
    /\ proc = NoProc
    /\ adapter = NoAdapter
    /\ run = NoRun
    /\ call \in { [NoCall EXCEPT !.in = x] : x \in LibInputs }

Idling(kind) == call.fn = "none" /\ call.in.kind = kind

Rest ==
    <<argv, content, mainpc, pipe, dirs, js, stdout, stderr, exitCode, clash, proc,
      adapter, run>>

FetchAll ==
    /\ Idling("results")
    /\ call' = [call EXCEPT !.fn = "fetchAll", !.out = fetchAll(call.in.rs)]
    /\ UNCHANGED Rest

FetchCell ==
    /\ Idling("results")
    /\ call' = [call EXCEPT !.fn = "fetchCell", !.out = fetchCell(call.in.rs)]
    /\ UNCHANGED Rest

FetchOne ==
    /\ Idling("results")
    /\ call' = [call EXCEPT !.fn = "fetchOne", !.out = fetchOne(call.in.rs)]
    /\ UNCHANGED Rest

\* diagnostics, line 39-52.
FormatDiagnostics ==
    /\ Idling("tsDiagnostics")
    /\ call' = [call EXCEPT !.fn = "diagnostics", !.out = messages(call.in.list)]
    /\ UNCHANGED Rest

\* call_rollup, line 307-308: the catch of what bundle.generate threw.
CatchBundleError ==
    /\ Idling("thrown")
    /\ call' = [call EXCEPT !.fn = "catch", !.out = caught(call.in.e)]
    /\ UNCHANGED Rest

NextLib ==
    \/ FormatDiagnostics
    \/ CatchBundleError
    \/ FetchAll
    \/ FetchCell
    \/ FetchOne

SpecLib == InitLib /\ [][NextLib]_vars

---------------------------------------------------------------------------
(* The library: a ResultSetAdapter under calls *)

MaxCalls == 4

\* The columns a caller asks for: numbers from 0 to one beyond the widest
\* result set, names of columns and a name of no column.
AskedColumns ==
    { Num(n) : n \in 0..(MaxCols + 1) }
        \cup { Str("C" \o ToString(j)) : j \in 1..MaxCols } \cup {Str("NOPE")}

\* The adapter of a statement, the results of its next() calls so far and
\* the last getColumnValue call: the column asked for, what the call gave
\* and the number of next() calls before it.
InitCursor ==
    /\ argv = <<>>
    /\ content = [f \in Files |-> Unused]
    /\ mainpc = "map"
    /\ pipe = <<>>
    /\ dirs = {}
    /\ js = [f \in Files |-> [exists |-> FALSE, writer |-> 0]]
    /\ stdout = <<>>
    /\ stderr = <<>>
    /\ exitCode = -1
    /\ clash = {}
    /\ proc = NoProc
    /\ call = NoCall
    /\ run = NoRun
    /\ adapter \in { [class |-> "ResultSetAdapter", this |-> rs, nexts |-> <<>>,
                      asked |-> <<>>, given |-> Undef, at |-> 0] : rs \in ResultSets }

Others ==
    <<argv, content, mainpc, pipe, dirs, js, stdout, stderr, exitCode, clash, proc, call,
      run>>

\* A call of next().
CallNext ==
    /\ adapter.class = "ResultSetAdapter"
    /\ Len(adapter.nexts) < MaxCalls
    /\ adapter' = [adapter EXCEPT !.this = next(adapter.this).rs,
                                  !.nexts = Append(adapter.nexts, next(adapter.this).ret)]
    /\ UNCHANGED Others

\* A call of getColumnValue(col).
CallGetColumnValue(col) ==
    /\ adapter.class = "ResultSetAdapter"
    /\ adapter' = [adapter EXCEPT !.asked = <<col>>,
                                  !.given = getColumnValue(adapter.this, col),
                                  !.at = Len(adapter.nexts)]
    /\ UNCHANGED Others

NextCursor ==
    \/ CallNext
    \/ \E col \in AskedColumns : CallGetColumnValue(col)

SpecCursor == InitCursor /\ [][NextCursor]_vars

---------------------------------------------------------------------------
(* The library: a StatementAdapter under calls *)

MaxExecutes == 2

Bool(b) == [typeof |-> "boolean", s |-> IF b THEN "true" ELSE "false", n |-> 0]

\* The SQL texts of the statements: execInput.sqlText.
SqlTexts == {"select 1", "call p()"}

\* The SQL types of the driver's columns, those sqlToJsType knows and one
\* it does not know; column j of a statement is of the j-th type.
SqlTypes ==
    <<"FIXED", "TEXT", "REAL", "BINARY", "BOOLEAN", "DATE", "TIMESTAMP_LTZ",
      "TIMESTAMP_NTZ", "TIMESTAMP_TZ", "VARIANT", "OBJECT", "ARRAY", "MAP", "GEOGRAPHY">>
getType(rs, index) == SqlTypes[(index % Len(SqlTypes)) + 1]

\* StatementAdapter.sqlToJsType.
sqlToJsType(sqlType) ==
    CASE sqlType \in {"FIXED", "REAL"} -> "number"
      [] sqlType = "TEXT" -> "string"
      [] sqlType = "BINARY" -> "buffer"
      [] sqlType = "BOOLEAN" -> "boolean"
      [] sqlType \in {"DATE", "TIMESTAMP_LTZ", "TIMESTAMP_NTZ", "TIMESTAMP_TZ"} -> "date"
      [] sqlType \in {"VARIANT", "OBJECT", "ARRAY", "MAP"} -> "json"
      [] OTHER -> "invalid"

\* The statement the driver makes for the id-th conn.execute: R rows of C
\* columns.
RowStatement(id, R, C) ==
    [id |-> id, rows |-> [r \in 1..R |-> [c \in 1..C |-> Num(1)]], cols |-> C]
RowStatements(id) == { RowStatement(id, R, C) : R \in 0..MaxRows, C \in 1..MaxCols }

\* new SnowflakeErrorWithStatement(err, stmt), and an error of another
\* class, which conn.execute throws by itself.
SnowflakeErrorWithStatement(err, stmt) ==
    [typeof |-> "thrown", s |-> err, n |-> 0,
     class |-> "SnowflakeErrorWithStatement", stmt |-> <<stmt>>]
OtherError(text) ==
    [typeof |-> "thrown", s |-> text, n |-> 0, class |-> "Error", stmt |-> <<>>]

\* What the driver does with the id-th conn.execute: it completes with a
\* statement and no error, completes with a statement and an error, or
\* throws.
DriverOutcomes(id) ==
    { [completes |-> TRUE, err |-> e, stmt |-> <<st>>] :
          e \in {"", "SQL compilation error"}, st \in RowStatements(id) }
        \cup { [completes |-> FALSE, err |-> "Invalid sqlText", stmt |-> <<>>] }

\* new ResultSetAdapter(stmt) with getSnowflakeStmt().
ResultSetAdapterOf(stmt) == ResultSetAdapter(stmt.rows, stmt.cols) @@ [stmt |-> stmt]
getSnowflakeStmt(rs) == rs.stmt

\* execute = deasync(executeAsync): what a call returns or throws for what
\* the driver does.
executeAsync(outcome) ==
    IF ~outcome.completes THEN [thrown |-> TRUE, res |-> OtherError(outcome.err)]
    ELSE IF outcome.err # ""
    THEN [thrown |-> TRUE, res |-> SnowflakeErrorWithStatement(outcome.err, outcome.stmt[1])]
    ELSE [thrown |-> FALSE, res |-> ResultSetAdapterOf(outcome.stmt[1])]

\* StatementAdapter's constructor: resultSet and stmt are undefined, <<>>.
StatementAdapter(execInput) ==
    [execInput |-> execInput, resultSet |-> <<>>, stmt |-> <<>>]

\* An execute that stores nothing of an execution that failed.
executeForgettingError(this, outcome) ==
    LET done == executeAsync(outcome)
    IN  IF done.thrown
        THEN [thrown |-> TRUE, ret |-> done.res, this |-> this]
        ELSE [thrown |-> FALSE, ret |-> done.res,
              this |-> [this EXCEPT !.resultSet = <<done.res>>,
                                    !.stmt = <<getSnowflakeStmt(done.res)>>]]

\* StatementAdapter.execute: what it returns or throws, and the adapter
\* after it.
execute(this, outcome) ==
    LET done == executeAsync(outcome)
    IN  IF done.thrown
        THEN [thrown |-> TRUE, ret |-> done.res,
              this |-> IF done.res.class = "SnowflakeErrorWithStatement"
                       THEN [this EXCEPT !.stmt = done.res.stmt]
                       ELSE this]
        ELSE [thrown |-> FALSE, ret |-> done.res,
              this |-> [this EXCEPT !.resultSet = <<done.res>>,
                                    !.stmt = <<getSnowflakeStmt(done.res)>>]]

\* What the three guards throw, <<>> for nothing.
getSnowflakeStmtSafe(this) ==
    IF this.stmt = <<>> THEN <<Thrown("Statement is not executed yet.")>> ELSE <<>>
throwIfNoResultWithoutStmt(this, col) ==
    IF this.resultSet = <<>>
    THEN <<Thrown("Given column name/index does not exist: " \o String(col))>>
    ELSE <<>>
throwIfNoResult(this, col) ==
    IF this.stmt # <<>> /\ this.resultSet = <<>>
    THEN <<Thrown("Given column name/index does not exist: " \o String(col))>>
    ELSE <<>>
getResultSetSafe(this) ==
    IF this.resultSet = <<>> THEN <<Thrown("Statement is not executed yet.")>> ELSE <<>>

\* The accessors by what they start with.
StmtAccessors == {"getColumnCount", "getNumRowsUpdated", "getRowCount", "getQueryId"}
IsColumnAccessors ==
    {"isColumnNullable", "isColumnArray", "isColumnBinary", "isColumnBoolean",
     "isColumnDate", "isColumnNumber", "isColumnObject", "isColumnTime",
     "isColumnTimestamp", "isColumnVariant"}
ColumnAccessors ==
    {"getColumnName", "getColumnScale", "getColumnSqlType", "getColumnType",
     "isColumnText"} \cup IsColumnAccessors
NotExposed ==
    [getNumDuplicateRowsUpdated |-> "duplicate rows updated",
     getNumRowsDeleted |-> "deleted rows",
     getNumRowsInserted |-> "inserted rows"]
Accessors ==
    StmtAccessors \cup ColumnAccessors \cup DOMAIN NotExposed
        \cup {"getNumRowsAffected", "getSqlText"}

\* What the driver answers about a statement or one of its columns, for
\* the answers that are the driver's alone.
Driver(stmt, method, index) == [typeof |-> "driver", s |-> method, n |-> index, of |-> stmt.id]

\* An accessor of the executed statement, past getSnowflakeStmtSafe.
OfStmt(stmt, fn) ==
    CASE fn = "getColumnCount" -> Num(stmt.cols)
      [] fn = "getRowCount" -> Num(Len(stmt.rows))
      [] fn = "getNumRowsUpdated" -> Driver(stmt, "getNumUpdatedRows", 0)
      [] fn = "getQueryId" -> Driver(stmt, "getQueryId", 0)

\* An accessor of a column, past throwIfNoResult and getResultSetSafe:
\* resultSet.getColumn(col) is undefined for what is no column.
OfColumn(rs, fn, col) ==
    LET key == transformCol(col)
        index == IF isString(key)
                 THEN IF \E j \in 1..rs.cols : getColumns(rs)[j] = key.s
                      THEN (CHOOSE j \in 1..rs.cols : getColumns(rs)[j] = key.s) - 1
                      ELSE -1
                 ELSE IF key.n \in 0..(rs.cols - 1) THEN key.n ELSE -1
    IN  IF index = -1 THEN Thrown("TypeError")
        ELSE CASE fn = "getColumnName" -> Str(getName(rs, index))
               [] fn = "getColumnSqlType" -> Str(getType(rs, index))
               [] fn = "getColumnType" -> Str(sqlToJsType(getType(rs, index)))
               [] fn = "isColumnText" -> Bool(getType(rs, index) = "TEXT")
               [] OTHER -> Driver(rs.stmt, fn, index)

\* What a call of an accessor of a StatementAdapter returns or throws.
Accessor(this, fn, col) ==
    CASE fn \in StmtAccessors ->
            IF getSnowflakeStmtSafe(this) # <<>> THEN getSnowflakeStmtSafe(this)[1]
            ELSE OfStmt(this.stmt[1], fn)
      [] fn \in ColumnAccessors ->
            IF throwIfNoResult(this, col) # <<>> THEN throwIfNoResult(this, col)[1]
            ELSE IF getResultSetSafe(this) # <<>> THEN getResultSetSafe(this)[1]
            ELSE OfColumn(this.resultSet[1], fn, col)
      [] fn = "getNumRowsAffected" ->
            IF getResultSetSafe(this) # <<>> THEN getResultSetSafe(this)[1]
            ELSE Thrown("Node.JS driver does not expose the number of affected rows")
      [] fn = "getSqlText" -> Str(this.execInput.sqlText)
      [] OTHER ->
            Thrown("Node.JS driver does not expose the number of " \o NotExposed[fn])

\* The columns a caller asks for: the first, one beyond the widest
\* statement, and the first by its name.
StatementColumns == {Num(1), Num(MaxCols + 1), Str("C1")}

\* A new adapter: what the driver did with its execute() calls so far, and
\* the last call with the adapter before it.
InitStatement ==
    /\ argv = <<>>
    /\ content = [f \in Files |-> Unused]
    /\ mainpc = "map"
    /\ pipe = <<>>
    /\ dirs = {}
    /\ js = [f \in Files |-> [exists |-> FALSE, writer |-> 0]]
    /\ stdout = <<>>
    /\ stderr = <<>>
    /\ exitCode = -1
    /\ clash = {}
    /\ proc = NoProc
    /\ call = NoCall
    /\ run = NoRun
    /\ adapter \in { [class |-> "StatementAdapter",
                      this |-> StatementAdapter([sqlText |-> text]),
                      executes |-> <<>>, called |-> <<>>] : text \in SqlTexts }

\* A call of execute().
CallExecute ==
    /\ adapter.class = "StatementAdapter"
    /\ Len(adapter.executes) < MaxExecutes
    /\ \E outcome \in DriverOutcomes(Len(adapter.executes) + 1) :
          LET done == execute(adapter.this, outcome)
          IN  adapter' = [adapter EXCEPT
                  !.this = done.this,
                  !.executes = Append(adapter.executes, outcome),
                  !.called = <<[fn |-> "execute", col |-> Undef, out |-> done.ret,
                                before |-> adapter.this]>>]
    /\ UNCHANGED Others

\* A call of an accessor, with a column for those that take one.
CallAccessor(fn, col) ==
    /\ adapter.class = "StatementAdapter"
    /\ (fn \in ColumnAccessors) = (col # Undef)
    /\ adapter' = [adapter EXCEPT
          !.called = <<[fn |-> fn, col |-> col, out |-> Accessor(adapter.this, fn, col),
                        before |-> adapter.this]>>]
    /\ UNCHANGED Others

NextStatement ==
    \/ CallExecute
    \/ \E fn \in Accessors, col \in StatementColumns \cup {Undef} : CallAccessor(fn, col)

SpecStatement == InitStatement /\ [][NextStatement]_vars

---------------------------------------------------------------------------
(* The library: avg, on IEEE 754 doubles *)

MaxLen == 7
MaxVal == 5

\* The binary digits of the significand of a number.
Precision == 53

\* A number is NaN or digits * 2^exp: digits holds Precision binary digits,
\* the most significant first, which is 1 unless the number is 0.
NaN == [nan |-> TRUE, digits |-> <<>>, exp |-> 0]
Zero == [nan |-> FALSE, digits |-> [k \in 1..Precision |-> 0], exp |-> 0]

\* The w binary digits of an integer below 2^w, the binary digits of an
\* integer without leading zeros, and the integer that digits are.
Digits(v, w) == [j \in 1..w |-> (v \div 2^(w - j)) % 2]
Binary(v) == Digits(v, Cardinality({ j \in 0..30 : 2^j <= v }))
RECURSIVE Value(_)
Value(digits) ==
    LET len == Len(digits)
    IN  IF len = 0 THEN 0
        ELSE IF len = 1 THEN digits[1]
        ELSE Value(SubSeq(digits, 1, len \div 2)) * 2^(len - len \div 2)
                + Value(SubSeq(digits, len \div 2 + 1, len))

\* The number an integer literal or an array's length is.
FromInt(i) ==
    IF i = 0 THEN Zero
    ELSE [nan |-> FALSE,
          digits |-> Binary(i) \o [k \in 1..(Precision - Len(Binary(i))) |-> 0],
          exp |-> Len(Binary(i)) - Precision]

\* digits + 1, as digits and a carry out of the first place: the last 0
\* becomes 1 and the 1s behind it become 0.
Increment(digits) ==
    LET zeros == { k \in 1..Len(digits) : digits[k] = 0 }
        last == CHOOSE k \in zeros : \A j \in zeros : j <= k
    IN  IF zeros = {}
        THEN [digits |-> [k \in 1..Len(digits) |-> 0], carry |-> 1]
        ELSE [digits |-> [k \in 1..Len(digits) |->
                             IF k < last THEN digits[k] ELSE IF k = last THEN 1 ELSE 0],
              carry |-> 0]

\* Round to nearest, ties to even: kept are the Precision leading digits of
\* an exact result, exp the exponent of the last of them, and the rest of
\* the result is more than (above), exactly (tie) or less than half a unit
\* of that last digit.
Rounded(kept, exp, above, tie) ==
    IF above \/ (tie /\ kept[Precision] = 1)
    THEN LET up == Increment(kept)
         IN  IF up.carry = 1
             THEN [nan |-> FALSE,
                   digits |-> <<1>> \o SubSeq(up.digits, 1, Precision - 1),
                   exp |-> exp + 1]
             ELSE [nan |-> FALSE, digits |-> up.digits, exp |-> exp]
    ELSE [nan |-> FALSE, digits |-> kept, exp |-> exp]

\* 2^e modulo b, by halving e.
RECURSIVE PowerOfTwoMod(_, _)
PowerOfTwoMod(e, b) ==
    IF e = 0 THEN 1 % b
    ELSE LET h == PowerOfTwoMod(e \div 2, b)
         IN  (h * h * (IF e % 2 = 1 THEN 2 ELSE 1)) % b

\* Long division of a by b, for a < 2 * b: a step gives the digit
\* [rem >= b] and leaves 2 * (rem - digit * b), which is 2 * (rem % b).
\* What is left after k steps is therefore 2 * ((a * 2^(k-1)) % b).
Remainder(a, b, k) ==
    IF k = 0 THEN a ELSE 2 * ((a * PowerOfTwoMod(k - 1, b)) % b)
QuotientDigits(a, b, k) ==
    [j \in 1..k |-> IF Remainder(a, b, j - 1) >= b THEN 1 ELSE 0]

\* The least j with a * 2^j >= b, and the greatest j with b * 2^j <= a.
RECURSIVE ShiftUp(_, _)
ShiftUp(a, b) == IF a >= b THEN 0 ELSE 1 + ShiftUp(2 * a, b)
RECURSIVE ShiftDown(_, _)
ShiftDown(a, b) == IF 2 * b > a THEN 0 ELSE 1 + ShiftDown(a, 2 * b)

\* The quotient of the integers s >= 0 and n >= 0 as numbers, s / n: 0 / 0
\* is NaN; else the exact quotient rounded.  s and n are scaled by powers of
\* two so that 1 <= a / b < 2.
Divide(s, n) ==
    IF n = 0 THEN NaN
    ELSE IF s = 0 THEN Zero
    ELSE LET up == ShiftUp(s, n)
             dn == ShiftDown(s * 2^up, n)
             a == s * 2^up
             b == n * 2^dn
             rem == Remainder(a, b, Precision)
         IN  Rounded(QuotientDigits(a, b, Precision), (dn - up) - (Precision - 1),
                     rem > b, rem = b)

\* digits * n + carry, as digits, for Precision digits: the digits are
\* taken as four numbers of 14, 13, 13 and 13 digits, multiplied from the
\* last to the first with the carry handed on.
Multiply(digits, n, carry) ==
    LET l1 == Value(SubSeq(digits, 1, Precision - 39))
        l2 == Value(SubSeq(digits, Precision - 38, Precision - 26))
        l3 == Value(SubSeq(digits, Precision - 25, Precision - 13))
        l4 == Value(SubSeq(digits, Precision - 12, Precision))
        t4 == l4 * n + carry
        t3 == l3 * n + t4 \div 2^13
        t2 == l2 * n + t3 \div 2^13
        t1 == l1 * n + t2 \div 2^13
    IN  Binary(t1) \o Digits(t2 % 2^13, 13) \o Digits(t3 % 2^13, 13)
            \o Digits(t4 % 2^13, 13)

\* The product of a number and the integer n >= 1 as numbers, x * n: the
\* exact product rounded.
Times(x, n) ==
    IF x.nan THEN NaN
    ELSE IF x = Zero THEN Zero
    ELSE LET product == Multiply(x.digits, n, 0)
             more == Len(product) - Precision
             rest == SubSeq(product, Precision + 1, Len(product))
             half == more > 0 /\ rest[1] = 1
             beyond == \E k \in 2..more : rest[k] = 1
         IN  Rounded(SubSeq(product, 1, Precision), x.exp + more,
                     half /\ beyond, half /\ ~beyond)

\* xs.reduce((x, y) => x + y, 0): the sums of the bounded integers of the
\* inputs are far below 2^53, where + is exact.
RECURSIVE reduce(_, _)
reduce(xs, acc) == IF xs = <<>> THEN acc ELSE reduce(Tail(xs), acc + Head(xs))

\* An avg that leaves out the division.
avgWithoutDivision(xs) == FromInt(reduce(xs, 0))

\* avg, line 80-82 of output_message.ts.
avg(xs) == Divide(reduce(xs, 0), Len(xs))

\* The lists of up to MaxLen integers of 0..MaxVal.
NumberLists == UNION { [1..n -> 0..MaxVal] : n \in 0..MaxLen }

InitAvg ==
    /\ argv = <<>>
    /\ content = [f \in Files |-> Unused]
    /\ mainpc = "map"
    /\ pipe = <<>>
    /\ dirs = {}
    /\ js = [f \in Files |-> [exists |-> FALSE, writer |-> 0]]
    /\ stdout = <<>>
    /\ stderr = <<>>
    /\ exitCode = -1
    /\ clash = {}
    /\ proc = NoProc
    /\ adapter = NoAdapter
    /\ run = NoRun
    /\ call \in { [NoCall EXCEPT !.in = [kind |-> "xs", xs |-> xs]] : xs \in NumberLists }

Avg ==
    /\ call.fn = "none"
    /\ call.in.kind = "xs"
    /\ call' = [call EXCEPT !.fn = "avg", !.out = avg(call.in.xs)]
    /\ UNCHANGED Rest

NextAvg == Avg

SpecAvg == InitAvg /\ [][NextAvg]_vars

---------------------------------------------------------------------------
(* Vocabulary of the properties, stated from the inputs alone *)

\* A declaration carries the marker: a top-level function whose
\* documentation has the tag sf_stored_procedure.
Marked(d) ==
    /\ d.fn
    /\ \E n \in 1..Len(d.docs) :
          \E t \in 1..Len(d.docs[n].tags) : d.docs[n].tags[t] = "sf_stored_procedure"

MarkedDecls(f) == SelectSeq(content[f].decls, Marked)

Ambiguous(f) == { n \in 1..Len(MarkedDecls(f)) : MarkedDecls(f)[n].nsigs # 1 }

HasProblems(f) == content[f].problems # "none"

\* The problems the type checker reports for f, as diagnostic lines.
ProblemLines(f) ==
    CASE content[f].problems = "pre"  -> {<<"ts", f, 1>>}
      [] content[f].problems = "emit" -> {<<"emit", f, 1>>}
      [] OTHER -> {}

Range(s) == { s[n] : n \in 1..Len(s) }

DirsOf(i) == { d \in dirs : d[1] = i }

\* The statements a run without failures prints: input order, then
\* declaration order.
ExpectedStatements ==
    Flatten([i \in 1..Len(argv) |->
        [n \in 1..Len(MarkedDecls(argv[i])) |->
            <<"sql", argv[i], MarkedDecls(argv[i])[n].name,
              <<"bundle", argv[i], MarkedDecls(argv[i])[n].name>>>>]])

\* The diagnostic lines of the modules whose outcome is Diagnostics: input
\* order, then message order.
DiagnosticLines ==
    Flatten([i \in 1..Len(argv) |->
        IF isDiagnostics(pipe[i].result) THEN pipe[i].result.val ELSE <<>>])

---------------------------------------------------------------------------
(* C1..C10 *)

\* A pipeline died in the scanner's TypeError (a documentation comment
\* without tags).  C3..C6 are stated for the runs without it, so that what
\* refutes them is the error the code itself throws or lets through.
ScanTypeError == \E i \in Pipes : pipe[i].err[1] = "TypeError"

\* C1: once pack has returned and the module's pipeline has ended, no
\* scratch directory that pipeline created exists.  (Stated for the
\* pipelines that returned; the claim covers the throwing ones as well.)
C1_ScratchRemovedOnEveryExit ==
    \A i \in Pipes : pipe[i].pc = "done" => DirsOf(i) = {}

\* C2: the bundling step never throws: no pipeline is rejected with an
\* error raised while writing the entry script or resolving the module graph.
C2_BundlerNeverThrows ==
    \A i \in Pipes :
        pipe[i].pc = "rejected" => pipe[i].err[1] \notin {"writeFile", "rollup"}

\* C3: when at least one module's outcome is Diagnostics, main returns 1,
\* standard output is empty and standard error holds exactly the messages of
\* the failing modules, in input order then message order.
C3_DiagnosticsReported ==
    (Exited /\ ~ScanTypeError /\ \E i \in Pipes : isDiagnostics(pipe[i].result)) =>
        /\ mainpc = "returned"
        /\ exitCode = 1
        /\ stdout = <<>>
        /\ stderr = DiagnosticLines

\* C4: when no module's outcome is Diagnostics, main returns 0 and standard
\* output is the statements of all modules, input order then declaration
\* order, joined by three newlines (console.log ends the text with one).
C4_StatementsPrinted ==
    (Exited /\ ~ScanTypeError /\ \A i \in Pipes : ~isDiagnostics(pipe[i].result)) =>
        /\ mainpc = "returned"
        /\ exitCode = 0
        /\ stdout = Join(ExpectedStatements, Sep3) \o <<Newline>>

\* C5: every pipeline is started before main awaits, and the run ends only
\* after every pipeline has finished, also when one of them throws.
C5_WaitsForEveryPipeline ==
    /\ mainpc # "map" => \A i \in Pipes : Started(i)
    /\ (Exited /\ ~ScanTypeError) => \A i \in Pipes : Ended(i)

\* C6: a run ends either with all statements on standard output, nothing on
\* standard error and exit code 0, or with nothing on standard output, the
\* complete set of diagnostics on standard error and exit code 1.  (Read
\* generously: the lines are compared as a set, and the report of an
\* uncaught error counts as the diagnostic of the module that threw it.)
C6_AllOrNothing ==
    (Exited /\ ~ScanTypeError) =>
        \/ /\ exitCode = 0
           /\ stderr = <<>>
           /\ stdout = Join(ExpectedStatements, Sep3) \o <<Newline>>
        \/ /\ exitCode = 1
           /\ stdout = <<>>
           /\ Range(stderr) =
                 Range(DiagnosticLines) \cup { pipe[i].err : i \in Rejected }

\* C7: a module that loads and has no marked declaration yields the empty
\* list of statements, whatever else it contains; its emit is not run, it
\* creates no scratch directory and the bundler is never called for it.
C7_NoMarkedDeclarationsIsEmptySuccess ==
    \A i \in Pipes :
        (Started(i) /\ content[argv[i]].loads /\ MarkedDecls(argv[i]) = <<>>) =>
            /\ pipe[i].pc = "done"
            /\ pipe[i].result = Codes(<<>>)
            /\ pipe[i].emits = 0
            /\ pipe[i].mkdtemps = 0
            /\ pipe[i].calls = 0
            /\ DirsOf(i) = {}
            /\ js[argv[i]].writer # i

\* C8: a module for which the type checker reports a problem, before or
\* during the emit, has a Diagnostics outcome that contains the problem.
\* (Stated for the modules whose scan does not throw.)
C8_ProblemsGiveDiagnostics ==
    \A i \in Pipes :
        (Started(i) /\ HasProblems(argv[i]) /\ pipe[i].pc # "rejected") =>
            /\ isDiagnostics(pipe[i].result)
            /\ ProblemLines(argv[i]) \subseteq Range(pipe[i].result.val)

\* C9: a module with a marked declaration whose call-signature count is not
\* 1 produces no statements: its pipeline throws an error naming such a
\* declaration (the first) and its count, and nothing is emitted or bundled.
C9_AmbiguousSignatureThrows ==
    \A i \in Pipes :
        (Started(i) /\ content[argv[i]].loads /\ Ambiguous(argv[i]) # {}) =>
            LET d == MarkedDecls(argv[i])[Least(Ambiguous(argv[i]))]
            IN  /\ pipe[i].pc = "rejected"
                /\ pipe[i].err = <<"signatures", d.name, d.nsigs>>
                /\ pipe[i].codes = <<>>
                /\ pipe[i].result = None
                /\ pipe[i].emits = 0
                /\ pipe[i].calls = 0

\* C10: no pipeline reads, overwrites or deletes an emitted script file that
\* a different pipeline created or still uses.
C10_ExclusiveOwnership == clash = {}

---------------------------------------------------------------------------
(* C11..C14 *)

\* C11: within one pipeline the descriptors are bundled one after another
\* in declaration order: at most one scratch directory of the pipeline
\* exists; a directory that exists is the one of the descriptor being
\* bundled, so the directories of the earlier descriptors are gone before
\* the next one is created; and the bundler has been called for no
\* descriptor beyond the current one.
C11_BundledOneAfterAnother ==
    \A i \in Pipes :
        /\ Cardinality(DirsOf(i)) <= 1
        /\ \A d \in DirsOf(i) : d[2] = pipe[i].k
        /\ pipe[i].mkdtemps = pipe[i].k
        /\ pipe[i].calls \in {pipe[i].k - 1, pipe[i].k} \cap Nat
        /\ pipe[i].pc \in {"writeFile", "rollup", "generate", "close", "rmTmp"} =>
              /\ pipe[i].calls = pipe[i].k
              /\ Len(pipe[i].codes) = pipe[i].k - 1

\* The second descriptor of a module is being bundled: its scratch
\* directory exists, the first one's is gone and its statement is rendered.
C11_SecondDescriptorBundling ==
    \E i \in Pipes :
        /\ pipe[i].pc = "generate"
        /\ pipe[i].k = 2
        /\ DirsOf(i) = {<<i, 2>>}
        /\ Len(pipe[i].codes) = 1

\* C12: when a module's pipeline has ended, the script file its emit wrote
\* is removed, whether bundling gave statements, gave Diagnostics or threw;
\* when the process has exited no emitted script file is left.
C12_EmittedScriptRemoved ==
    /\ \A i \in Pipes :
          Ended(i) => ~(js[argv[i]].exists /\ js[argv[i]].writer = i)
    /\ (Exited /\ ~ScanTypeError) => \A f \in Files : ~js[f].exists

\* C13: a module's outcome is never both.  Once the bundler has produced
\* Diagnostics for a descriptor, no later descriptor of the module gets a
\* scratch directory or a bundler call, what compile returns is exactly that
\* Diagnostics value, and none of the statements rendered for the earlier
\* descriptors is printed.
C13_DiagnosticsOnly ==
    \A i \in Pipes :
        isDiagnostics(pipe[i].bundle) =>
            /\ pipe[i].pc \in {"close", "rmJs", "done", "rejected"}
            /\ pipe[i].calls = pipe[i].k
            /\ pipe[i].mkdtemps = pipe[i].k
            /\ Len(pipe[i].codes) = pipe[i].k - 1
            /\ pipe[i].result \in {None, pipe[i].bundle}
            /\ pipe[i].pc = "done" => pipe[i].result = pipe[i].bundle
            /\ stdout = <<>>

\* The bundling of a module's second descriptor gave Diagnostics after the
\* first one's statement was rendered, and compile has returned.
C13_SecondDescriptorFailed ==
    \E i \in Pipes :
        /\ pipe[i].pc = "done"
        /\ pipe[i].k = 2
        /\ Len(pipe[i].codes) = 1
        /\ isDiagnostics(pipe[i].bundle)
        /\ pipe[i].result = pipe[i].bundle

\* C14: the run exits with code 1 if and only if some module's outcome has
\* a diagnostic message; a run without any diagnostic message exits 0, and
\* a run that exits 1 has written a diagnostic line to standard error.
C14_ExitCodeIffDiagnostics ==
    (Exited /\ ~ScanTypeError) =>
        /\ exitCode = 1 <=> DiagnosticLines # <<>>
        /\ exitCode = 0 <=> DiagnosticLines = <<>>
        /\ exitCode = 1 => \E n \in 1..Len(stderr) : stderr[n] \in Range(DiagnosticLines)

---------------------------------------------------------------------------
(* C21, C24, C25 *)

\* C21: storedProcedures gives one descriptor for every marked top-level
\* function, in declaration order, and skips every other declaration
\* without error: a function without documentation, with documentation
\* without tags or with other tags only, and what is not a function.
\* (Stated for the modules without an overloaded marked function, whose
\* descriptor throws.)
C21_OneDescriptorPerMarkedFunction ==
    \A i \in Pipes :
        (Started(i) /\ content[argv[i]].loads /\ Ambiguous(argv[i]) = {}) =>
            /\ pipe[i].err[1] \notin {"TypeError", "signatures"}
            /\ Len(pipe[i].sprocs) = Len(MarkedDecls(argv[i]))
            /\ \A n \in 1..Len(pipe[i].sprocs) :
                  pipe[i].sprocs[n].name = MarkedDecls(argv[i])[n].name

\* pack has returned the statements of the module of pipeline i.
Packed(i) == pipe[i].packed.kind = "codes"

\* The script the bundler gives for the entry script of declaration d of f.
ScriptOf(f, d) == <<"bundle", f, d.name>>

---------------------------------------------------------------------------
(* C15..C20: one declaration *)

\* The call-signature parameters p1..pn of the declaration.
SigParams == proc.decl.params

UpperName(sym) == Text(toUpperCase(sym.name))

Described == proc.step \in {"described", "written", "bundled", "rendered"}
Written == proc.step \in {"written", "bundled", "rendered"}
Rendered == proc.step = "rendered"

\* The lines of a text: the pieces between its line ends.
Breaks(text) == { k \in 1..Len(text) : text[k] \in {"\n", "\r\n"} }
Kth(S, k) == CHOOSE x \in S : Cardinality({ y \in S : y < x }) = k - 1
LinesOf(text) ==
    LET B == Breaks(text)
        n == Cardinality(B)
        at == [k \in 1..n |-> Kth(B, k)]
    IN  [j \in 1..(n + 1) |->
            SubSeq(text,
                   IF j = 1 THEN 1 ELSE at[j - 1] + 1,
                   IF j = n + 1 THEN Len(text) ELSE at[j] - 1)]

StatementLines == LinesOf(proc.spCode)

\* The first line of the statement and the names of its parameter list: the
\* pieces between "(" and ")" are name, " ", type, separated by ", ".
Header == SubSeq(proc.spCode, 1, Least(Breaks(proc.spCode)) - 1)
CloseAt(line) == Least({ k \in 1..Len(line) : line[k] = ")" })
RenderedParamNames ==
    LET H == Header IN [j \in 1..((CloseAt(H) - 3) \div 4) |-> H[4 * j]]
RenderedParamTypes ==
    LET H == Header IN [j \in 1..((CloseAt(H) - 3) \div 4) |-> H[4 * j + 2]]

\* The arguments of a call line name ( snowflake , a , b ) that come after
\* the connection object; from is the place of the name.
CallArgs(line, from) ==
    [j \in 1..((Len(line) - from - 3) \div 2) |-> line[from + 2 + 2 * j]]

\* The call line of the entry script, and the same line inside the statement.
EntryCall == LET L == LinesOf(proc.useJs) IN L[Len(L)]
BundledCall == LET L == StatementLines IN L[Len(L) - 3]
Prologue == StatementLines[2]
Epilogue == LET L == StatementLines IN L[Len(L) - 1]

\* The declaration names no property of Object.prototype as a type or as the
\* marker's comment.  C16, C18, C19 and C20 are stated for the declarations
\* that are plain in everything but what the claim is about.
PlainTypes ==
    /\ proc.decl.returnType \notin DOMAIN ObjectPrototype
    /\ \A j \in 1..Len(SigParams) : SigParams[j].type \notin DOMAIN ObjectPrototype
PlainComment ==
    isString(proc.decl.comment) => proc.decl.comment.s \notin DOMAIN ObjectPrototype

\* C15: the descriptor's parameter list is exactly p2..pn of the call
\* signature, in declaration order, each under its upper-cased name; so is
\* the parameter list of the rendered statement, in which the first
\* parameter (the connection object) has no place.
C15_FirstParameterNotExposed ==
    /\ Described =>
          /\ Len(proc.sp.params) = IF SigParams = <<>> THEN 0 ELSE Len(SigParams) - 1
          /\ \A j \in 1..Len(proc.sp.params) :
                proc.sp.params[j].name = UpperName(SigParams[j + 1])
    /\ Rendered =>
          /\ Len(RenderedParamNames) = IF SigParams = <<>> THEN 0 ELSE Len(SigParams) - 1
          /\ \A j \in 1..Len(RenderedParamNames) :
                RenderedParamNames[j] = UpperName(SigParams[j + 1])

\* A rendered function of three parameters whose second one is written in
\* lower case.
C15_ThreeParametersRendered ==
    /\ Rendered
    /\ Len(SigParams) = 3
    /\ SigParams[2].name = <<"m", "s", "g">>
    /\ RenderedParamNames[1] = "MSG"

\* C16, as stated: the entry script is the import and exactly one call,
\* which assigns to __result the function applied to snowflake and then the
\* declared parameters in declaration order, each under its source-level
\* name.
C16_EntryCallUsesSourceNames ==
    (Written /\ PlainTypes /\ PlainComment) =>
        LET callLine == EntryCall
        IN  /\ Len(LinesOf(proc.useJs)) = 2
            /\ callLine[1] = "__result"
            /\ callLine[3] = proc.decl.name
            /\ callLine[5] = "snowflake"
            /\ CallArgs(callLine, 3) =
                  [j \in 1..(Len(SigParams) - 1) |-> Text(SigParams[j + 1].name)]

\* C16, amended: the same, with each declared parameter under its
\* upper-cased name, the name of the statement's parameter list.
C16_EntryCallUsesUpperCasedNames ==
    Written =>
        LET callLine == EntryCall
        IN  /\ Len(LinesOf(proc.useJs)) = 2
            /\ callLine[1] = "__result"
            /\ callLine[3] = proc.decl.name
            /\ callLine[5] = "snowflake"
            /\ CallArgs(callLine, 3) =
                  [j \in 1..(Len(SigParams) - 1) |-> UpperName(SigParams[j + 1])]

\* The entry script of a function whose second and third parameter are
\* written in lower case is on disk.
C16_EntryWrittenForLowerCaseNames ==
    /\ proc.step = "written"
    /\ Len(SigParams) = 3
    /\ SigParams[2].name = <<"n", "_", "1">>
    /\ SigParams[3].name = <<"m", "s", "g">>
    /\ EntryCall = <<"__result", " = ", "f", "(", "snowflake", ", ", "N_1", ", ", "MSG", ")">>

\* C17: in the statement, the arguments of the bundled call after snowflake
\* are exactly the names of the statement's parameter list, in the same
\* order; the call is of the procedure's function; and the variable the
\* call assigns is the one the prologue declares and the epilogue returns.
C17_CallMatchesSignature ==
    Rendered =>
        LET callLine == BundledCall
        IN  /\ callLine[4] = Header[2]
            /\ callLine[6] = "snowflake"
            /\ CallArgs(callLine, 4) = RenderedParamNames
            /\ callLine[2] = "__result"
            /\ Prologue[3] = callLine[2]
            /\ Epilogue[3] = callLine[2]

\* The statement of f(sf, msg: string): string without a rights comment.
C17_OneStringParameter ==
    /\ Rendered
    /\ Header = <<"create or replace procedure ", "f", "(", "MSG", " ", "STRING", ")",
                  " returns ", "STRING", " language javascript", "", " as $$">>
    /\ BundledCall = <<"    ", "__result", " = ", "f", "(", "snowflake", ", ", "MSG", ")">>

\* The keys of mapToSQL's table.
TableKeys == {"string", "number", "Date", "boolean", "object", "array", "json"}

\* The type names of the declaration that went through mapToSQL, with the
\* results.
Mapped ==
    { <<SigParams[j + 1].type, proc.sp.params[j].type>> : j \in 1..Len(proc.sp.params) }
    \cup (IF proc.decl.returnType # "void"
          THEN {<<proc.decl.returnType, proc.sp.returnType>>} ELSE {})

\* C18: mapToSQL is total: the result is always a non-empty string, and
\* for every type name that is not a key of the table it is VARIANT.
C18_MapToSQLTotal ==
    (Described /\ PlainComment) =>
        \A m \in Mapped :
            /\ m[2].typeof = "string"
            /\ m[2].s # ""
            /\ m[1] \notin TableKeys => m[2] = Str("VARIANT")

\* The type names the checker prints for arrays.
ArrayLike == {"number[]", "any[][]", "Array<string>"}

\* C19: string maps to STRING, number to NUMBER, Date to TIMESTAMP_LTZ,
\* boolean to BOOLEAN, every array type to ARRAY, object and json to
\* VARIANT, in the descriptor and in the rendered statement.
C19_TypeTable ==
    (Described /\ PlainTypes /\ PlainComment) =>
        \A m \in Mapped :
            /\ m[1] = "string"  => m[2] = Str("STRING")
            /\ m[1] = "number"  => m[2] = Str("NUMBER")
            /\ m[1] = "Date"    => m[2] = Str("TIMESTAMP_LTZ")
            /\ m[1] = "boolean" => m[2] = Str("BOOLEAN")
            /\ m[1] \in ArrayLike => m[2] = Str("ARRAY")
            /\ m[1] \in {"object", "json"} => m[2] = Str("VARIANT")

\* The rights clause of the statement: the piece between
\* " language javascript" and " as $$".
RenderedRights == Header[Len(Header) - 1]

\* C20: the comment caller gives Rights CALLER and the clause
\* " execute as CALLER", owner gives OWNER and " execute as OWNER"; every
\* other comment, absent, not a string or any other text, gives
\* NOT_SPECIFIED and no clause.
C20_RightsClause ==
    LET c == proc.decl.comment
    IN  (Rendered /\ PlainTypes) =>
            /\ proc.sp.rights =
                  IF c = Str("caller") THEN Rights.CALLER
                  ELSE IF c = Str("owner") THEN Rights.OWNER
                  ELSE Rights.NOT_SPECIFIED
            /\ RenderedRights =
                  IF c = Str("caller") THEN " execute as CALLER"
                  ELSE IF c = Str("owner") THEN " execute as OWNER"
                  ELSE ""

---------------------------------------------------------------------------
(* C22, C23: the statement *)

\* 'NAME TYPE' of the descriptor's parameter j, and the first n of them
\* joined by ', '.
ParamText(j) == proc.sp.params[j].name \o " " \o String(proc.sp.params[j].type)
RECURSIVE CommaList(_)
CommaList(n) ==
    IF n = 0 THEN ""
    ELSE IF n = 1 THEN ParamText(1)
    ELSE CommaList(n - 1) \o ", " \o ParamText(n)

BodyLines == LinesOf(proc.bundle)

\* C22: the statement is the header line 'create or replace procedure '
\* name '(' parameters ') returns ' type ' language javascript' rights
\* clause ' as $$', the line '    let __result = null;', an empty line,
\* every line of the body (split at LF or CRLF) behind 4 spaces,
\* '    return __result;' and '$$;', its lines ended by LF.
C22_StatementText ==
    Rendered =>
        LET L == StatementLines
            B == BodyLines
        IN  /\ Len(L) = Len(B) + 5
            /\ Text(L[1]) =
                  "create or replace procedure " \o proc.sp.name
                     \o "(" \o CommaList(Len(proc.sp.params)) \o ") returns "
                     \o String(proc.sp.returnType) \o " language javascript"
                     \o sqlRights(proc.sp.rights) \o " as $$"
            /\ Text(L[2]) = "    let __result = null;"
            /\ Text(L[3]) = ""
            /\ \A k \in 1..Len(B) : Text(L[3 + k]) = "    " \o Text(B[k])
            /\ Text(L[Len(L) - 1]) = "    return __result;"
            /\ Text(L[Len(L)]) = "$$;"
            /\ \A k \in 1..Len(proc.spCode) : proc.spCode[k] # "\r\n"

\* The statement of a function of two SQL parameters whose body has a CRLF
\* line end and an empty line.
C22_TwoParametersCRLFBody ==
    /\ Rendered
    /\ Len(proc.sp.params) = 2
    /\ \E k \in 1..Len(proc.bundle) : proc.bundle[k] = "\r\n"
    /\ Text(StatementLines[4]) = "    const h = 1;"
    /\ Text(StatementLines[5]) = "    "

\* The return type of the statement: the piece after ') returns '.
RenderedReturn == LET H == Header IN H[CloseAt(H) + 2]

SqlTypeNames ==
    {"STRING", "NUMBER", "TIMESTAMP_LTZ", "BOOLEAN", "VARIANT", "ARRAY", "VARIANT NULL"}

\* C23: the rendered return type is a non-empty SQL type name: VARIANT NULL
\* for the source return type void, else mapToSQL of the source return type.
C23_ReturnType ==
    (Rendered /\ PlainComment) =>
        /\ RenderedReturn # ""
        /\ RenderedReturn \in SqlTypeNames
        /\ proc.decl.returnType = "void" => RenderedReturn = "VARIANT NULL"
        /\ proc.decl.returnType # "void" =>
              /\ proc.sp.returnType = mapToSQL(proc.decl.returnType)
              /\ RenderedReturn = proc.sp.returnType.s

---------------------------------------------------------------------------
(* C27, C28, C29: the result set functions *)

Called(fn) == call.fn = fn
Rows == call.in.rs.rows
Columns == call.in.rs.cols

\* C27: fetchAll of a result set of R rows and C columns returns a list of
\* exactly R arrays in row order, array i of length C with the value of
\* column j of row i at place j; the empty result set gives the empty list.
C27_FetchAllGrid ==
    Called("fetchAll") =>
        /\ call.out.ret.s = "Array"
        /\ Len(call.out.ret.items) = Len(Rows)
        /\ \A i \in 1..Len(Rows) :
              /\ call.out.ret.items[i].s = "Array"
              /\ Len(call.out.ret.items[i].items) = Columns
              /\ \A j \in 1..Columns : call.out.ret.items[i].items[j] = Rows[i][j]
        /\ Len(Rows) = 0 => call.out.ret = Arr(<<>>)

\* fetchAll has returned the grid of two rows that differ in both of their
\* two columns.
C27_TwoDifferentRowsFetched ==
    /\ Called("fetchAll")
    /\ Len(Rows) = 2
    /\ Columns = 2
    /\ Rows[1][1] # Rows[2][1]
    /\ Rows[1][2] # Rows[2][2]
    /\ Rows[1][1] # Rows[1][2]
    /\ Len(call.out.ret.items) = 2

\* C28: fetchCell returns the value of column 1 of the first row when
\* there is a row, and null when there is none; it has advanced the cursor
\* by at most one row.
C28_FetchCellFirstValue ==
    Called("fetchCell") =>
        /\ Len(Rows) >= 1 => call.out.ret = Rows[1][1]
        /\ Len(Rows) = 0 => call.out.ret = Null
        /\ call.out.rs.rowsRead <= 1

\* fetchCell has returned the first value of a result set of two rows
\* whose second row starts with another value.
C28_FirstOfTwoRows ==
    /\ Called("fetchCell")
    /\ Len(Rows) = 2
    /\ Rows[1][1] # Rows[2][1]
    /\ call.out.ret = Rows[1][1]

\* C29: fetchOne returns the first row as the array of its C values in
\* column order when there is a row, and null when there is none.
C29_FetchOneFirstRow ==
    Called("fetchOne") =>
        /\ Len(Rows) >= 1 =>
              /\ call.out.ret.s = "Array"
              /\ Len(call.out.ret.items) = Columns
              /\ \A j \in 1..Columns : call.out.ret.items[j] = Rows[1][j]
        /\ Len(Rows) = 0 => call.out.ret = Null

\* fetchOne has returned a first row of two different values.
C29_RowOfTwoValues ==
    /\ Called("fetchOne")
    /\ Len(Rows) >= 1
    /\ Columns = 2
    /\ Rows[1][1] # Rows[1][2]
    /\ call.out.ret = Arr(<<Rows[1][1], Rows[1][2]>>)

---------------------------------------------------------------------------
(* C26: the diagnostic lines *)

\* The message of a diagnostic as the compiler words it: the text, and the
\* explaining message of a chain on the next line behind two spaces.
Worded(d) ==
    IF d.messageText.next = <<>> THEN d.messageText.text
    ELSE d.messageText.text \o "\n  " \o d.messageText.next[1]

\* C26: a type-check diagnostic with a file is '<file> (<line>,<col>):
\* <message>' with line and column counted from 1, one more than the
\* position counted from 0; a diagnostic without a file is the message
\* alone, and so is the one of a bundling failure: the text of what was
\* thrown.
C26_DiagnosticLines ==
    /\ Called("diagnostics") =>
          /\ Len(call.out.messages) = Len(call.in.list)
          /\ \A k \in 1..Len(call.in.list) :
                LET d == call.in.list[k]
                IN  call.out.messages[k] =
                        IF d.file = Undef THEN Worded(d)
                        ELSE d.file.fileName \o " ("
                                \o ToString(d.at.line + 1) \o ","
                                \o ToString(d.at.character + 1) \o "): " \o Worded(d)
    /\ Called("catch") =>
          /\ Len(call.out.messages) = 1
          /\ call.in.e.typeof = "string" => call.out.messages[1] = call.in.e.s
          /\ (call.in.e.typeof = "object" /\ call.in.e.name # "" /\ call.in.e.message # "")
                => call.out.messages[1] = call.in.e.name \o ": " \o call.in.e.message

\* The messages of a diagnostic at line 0, character 2 of a file, followed
\* by a diagnostic without a file, have been formatted.
C26_PositionedThenBare ==
    /\ Called("diagnostics")
    /\ Len(call.in.list) = 2
    /\ call.in.list[1].file # Undef
    /\ call.in.list[1].at = [line |-> 0, character |-> 2]
    /\ call.in.list[2].file = Undef
    /\ call.out.messages =
          <<"src/a.ts (1,3): Cannot find module 'lib'.",
            "No overload matches this call.\n  Argument of type 'number' is not assignable.">>

---------------------------------------------------------------------------
(* C30: avg *)

\* The sum of the first k numbers of a list, half of a number, and the
\* greatest odd divisor of a positive integer.
RECURSIVE Total(_, _)
Total(xs, k) == IF k = 0 THEN 0 ELSE Total(xs, k - 1) + xs[k]
Half(x) == IF x = Zero THEN Zero ELSE [x EXCEPT !.exp = x.exp - 1]
RECURSIVE OddPart(_)
OddPart(n) == IF n % 2 = 0 THEN OddPart(n \div 2) ELSE n

Averaged == call.in.xs
SumOfAveraged == Total(Averaged, Len(Averaged))

\* C30, as stated: for every non-empty list, avg(xs) multiplied by the
\* length of xs equals the sum of xs; avg([x]) = x and avg([x, y]) =
\* (x + y) / 2; for the empty list avg returns NaN.
C30_ProductIsSum ==
    Called("avg") =>
        /\ Averaged # <<>> =>
              /\ ~call.out.nan
              /\ Times(call.out, Len(Averaged)) = FromInt(SumOfAveraged)
        /\ Len(Averaged) = 1 => call.out = FromInt(Averaged[1])
        /\ Len(Averaged) = 2 => call.out = Half(FromInt(Averaged[1] + Averaged[2]))
        /\ Averaged = <<>> => call.out.nan

\* C30, amended: the same, with the product equal to the sum for the lists
\* whose sum divided by their length is a binary fraction: the greatest odd
\* divisor of the length divides the sum.
C30_ProductIsSumOfBinaryFractions ==
    Called("avg") =>
        /\ Averaged # <<>> => ~call.out.nan
        /\ (Averaged # <<>> /\ SumOfAveraged % OddPart(Len(Averaged)) = 0) =>
              Times(call.out, Len(Averaged)) = FromInt(SumOfAveraged)
        /\ Len(Averaged) = 1 => call.out = FromInt(Averaged[1])
        /\ Len(Averaged) = 2 => call.out = Half(FromInt(Averaged[1] + Averaged[2]))
        /\ Averaged = <<>> => call.out.nan

\* avg of six numbers of sum 9 has given 1.5: 3 * 2^-1.
C30_SixNumbersOfSumNine ==
    /\ Called("avg")
    /\ Len(Averaged) = 6
    /\ SumOfAveraged = 9
    /\ call.out = Half(FromInt(3))
    /\ Times(call.out, 6) = FromInt(9)

---------------------------------------------------------------------------
(* C31, C32: the cursor of a ResultSetAdapter *)

Cursor == adapter.this
Trues(results) == Cardinality({ k \in 1..Len(results) : results[k] })

\* C31: for a statement of N rows the first N calls of next() return true
\* and every later call false; rowsRead starts at 0 and never exceeds N,
\* and a call of next() adds exactly 1 to it when it returns true and
\* leaves it when it returns false, so that it never decreases; the k-th
\* true result has loaded the row at index k - 1 from 0.
C31_CursorInv ==
    adapter.class = "ResultSetAdapter" =>
        /\ \A k \in 1..Len(adapter.nexts) :
              adapter.nexts[k] = (k <= Len(Cursor.rows))
        /\ adapter.nexts = <<>> => Cursor.rowsRead = 0
        /\ Cursor.rowsRead <= Len(Cursor.rows)
        /\ Cursor.rowsRead = Trues(adapter.nexts)
        /\ Trues(adapter.nexts) >= 1 =>
              Cursor.row = <<Cursor.rows[(Trues(adapter.nexts) - 1) + 1]>>
C31_CursorStep ==
    Len(adapter'.nexts) = Len(adapter.nexts) + 1 =>
        /\ adapter'.nexts[Len(adapter'.nexts)] =>
              adapter'.this.rowsRead = Cursor.rowsRead + 1
        /\ ~adapter'.nexts[Len(adapter'.nexts)] =>
              adapter'.this.rowsRead = Cursor.rowsRead
C31_Cursor == [](C31_CursorInv) /\ [][C31_CursorStep /\ adapter'.this.rowsRead >= Cursor.rowsRead]_vars

\* next() has been called twice more than a statement of two different
\* rows has rows.
C31_TwoRowsFourCalls ==
    /\ adapter.class = "ResultSetAdapter"
    /\ Len(Cursor.rows) = 2
    /\ Cursor.rows[1] # Cursor.rows[2]
    /\ adapter.nexts = <<TRUE, TRUE, FALSE, FALSE>>
    /\ Cursor.rowsRead = 2

\* The place of the column a caller asks for: of a number from 1, or of a
\* column's name; 0 for what is no column.
AskedPlace ==
    LET col == adapter.asked[1]
    IN  IF col.typeof = "string"
        THEN IF \E j \in 1..Cursor.cols : col.s = "C" \o ToString(j)
             THEN CHOOSE j \in 1..Cursor.cols : col.s = "C" \o ToString(j) ELSE 0
        ELSE IF col.n \in 1..Cursor.cols THEN col.n ELSE 0

\* The results of the next() calls before the last getColumnValue call.
Before == SubSeq(adapter.nexts, 1, adapter.at)

\* C32: getColumnValue throws 'ResultSet is empty or not prepared (call
\* next() first).' if and only if no next() of the adapter has returned
\* true before the call; once a row is loaded it returns the value that
\* the row loaded last has for the column, a number counting the columns
\* from 1 and a string naming one, also after next() has returned false.
C32_GetColumnValue ==
    (adapter.class = "ResultSetAdapter" /\ adapter.asked # <<>>) =>
        /\ adapter.given =
              Thrown("ResultSet is empty or not prepared (call next() first).")
              <=> Trues(Before) = 0
        /\ (Trues(Before) >= 1 /\ AskedPlace # 0) =>
              adapter.given = Cursor.rows[Trues(Before)][AskedPlace]

\* The second column of a row whose two values differ has been asked for
\* by its number after next() has returned true for the two rows of the
\* statement and then false.
C32_ValueAfterEnd ==
    /\ adapter.class = "ResultSetAdapter"
    /\ Len(Cursor.rows) = 2
    /\ Cursor.cols = 2
    /\ Cursor.rows[2][1] # Cursor.rows[2][2]
    /\ adapter.nexts = <<TRUE, TRUE, FALSE>>
    /\ adapter.at = 3
    /\ adapter.asked = <<Num(2)>>
    /\ adapter.given = Cursor.rows[2][2]

---------------------------------------------------------------------------
(* C33, C34, C35: a StatementAdapter before and after execute() *)

Statement == adapter.this
LastCall == adapter.called[1]
NotExecutedYet == Thrown("Statement is not executed yet.")
NeedExecution == StmtAccessors \cup ColumnAccessors \cup {"getNumRowsAffected"}

\* C33: before any execute() call every accessor that needs the executed
\* statement or its result set throws 'Statement is not executed yet.'
\* and leaves the adapter as it was; getSqlText returns the SQL text of
\* the input in every state.
C33_BeforeExecute ==
    (adapter.class = "StatementAdapter" /\ adapter.called # <<>>) =>
        /\ (adapter.executes = <<>> /\ LastCall.fn \in NeedExecution) =>
              /\ LastCall.out = NotExecutedYet
              /\ Statement = LastCall.before
              /\ Statement = StatementAdapter(Statement.execInput)
        /\ LastCall.fn = "getSqlText" =>
              /\ LastCall.out = Str(Statement.execInput.sqlText)
              /\ Statement.execInput.sqlText \in SqlTexts
              /\ Statement = LastCall.before

\* An accessor of a column, guarded by throwIfNoResult, has been called on
\* a new adapter.
C33_ColumnAccessorOnNewAdapter ==
    /\ adapter.class = "StatementAdapter"
    /\ adapter.executes = <<>>
    /\ adapter.called # <<>>
    /\ LastCall.fn = "isColumnText"
    /\ LastCall.col = Num(1)
    /\ LastCall.out = NotExecutedYet

LastExecute == adapter.executes[Len(adapter.executes)]

\* C34: an execute() that succeeds stores the result set and the
\* statement under it and returns the result set; one that fails with a
\* SnowflakeErrorWithStatement stores the error's statement only and
\* throws that error; when the only execute() so far has failed this way,
\* the accessors guarded by throwIfNoResult throw 'Given column name/index
\* does not exist: <col>' and getColumnCount and getRowCount answer from
\* the stored statement.
C34_Execute ==
    (adapter.class = "StatementAdapter" /\ adapter.called # <<>>) =>
        /\ (LastCall.fn = "execute" /\ LastExecute.completes /\ LastExecute.err = "") =>
              /\ LastCall.out = ResultSetAdapterOf(LastExecute.stmt[1])
              /\ Statement.resultSet = <<LastCall.out>>
              /\ Statement.stmt = LastExecute.stmt
        /\ (LastCall.fn = "execute" /\ LastExecute.completes /\ LastExecute.err # "") =>
              /\ LastCall.out =
                    SnowflakeErrorWithStatement(LastExecute.err, LastExecute.stmt[1])
              /\ Statement.stmt = LastExecute.stmt
              /\ Statement.resultSet = LastCall.before.resultSet
        /\ (Len(adapter.executes) = 1 /\ LastExecute.completes /\ LastExecute.err # "") =>
              /\ LastCall.fn \in ColumnAccessors =>
                    LastCall.out = Thrown("Given column name/index does not exist: "
                                              \o String(LastCall.col))
              /\ LastCall.fn = "getColumnCount" =>
                    LastCall.out = Num(LastExecute.stmt[1].cols)
              /\ LastCall.fn = "getRowCount" =>
                    LastCall.out = Num(Len(LastExecute.stmt[1].rows))

\* The name of a column has been asked for after the only execute() has
\* failed with a statement of two rows.
C34_ColumnNameAfterFailure ==
    /\ adapter.class = "StatementAdapter"
    /\ Len(adapter.executes) = 1
    /\ LastExecute.completes
    /\ LastExecute.err # ""
    /\ Len(LastExecute.stmt[1].rows) = 2
    /\ adapter.called # <<>>
    /\ LastCall.fn = "getColumnName"
    /\ LastCall.col = Str("C1")
    /\ LastCall.out = Thrown("Given column name/index does not exist: C1")

\* C35: after any sequence of execute() calls, whenever the stored result
\* set is defined the stored statement is defined and is the statement
\* under that result set, so that every accessor answers from one
\* execution.
C35_StatementOfResultSet ==
    (adapter.class = "StatementAdapter" /\ Statement.resultSet # <<>>) =>
        Statement.stmt = <<getSnowflakeStmt(Statement.resultSet[1])>>

---------------------------------------------------------------------------
(* C36, C37: the order of a pipeline's steps *)

\* The builds rollup.rollup has made for the pipeline i: one for every
\* call of the bundler but a last one that is still before rollup.rollup
\* or threw there or in writeFile.
Built(i) ==
    IF \/ pipe[i].pc \in {"writeFile", "rollup"}
       \/ pipe[i].pc = "rejected" /\ pipe[i].err[1] \in {"writeFile", "rollup"}
    THEN pipe[i].calls - 1
    ELSE pipe[i].calls

\* C36: every build rollup.rollup has made is closed exactly once before
\* call_rollup returns, whether generate succeeds or throws, and it is
\* closed before pack removes the scratch directory: a build is open
\* only between rollup.rollup and the close; outside it as many closes
\* are done as builds were made; a step closes at most one build, an open
\* one; and the scratch directory is removed with its build closed.
C36_ClosedInv ==
    \A i \in Pipes :
        /\ pipe[i].open => pipe[i].pc \in {"generate", "close"}
        /\ pipe[i].pc \in {"generate", "close"} => pipe[i].open
        /\ pipe[i].closes = Built(i) - (IF pipe[i].open THEN 1 ELSE 0)
C36_ClosedStep ==
    \A i \in Pipes :
        /\ pipe'[i].closes \in {pipe[i].closes, pipe[i].closes + 1}
        /\ (pipe'[i].closes = pipe[i].closes + 1) = (pipe[i].open /\ ~pipe'[i].open)
        /\ \A d \in DirsOf(i) :
              d \notin dirs' => ~pipe[i].open /\ pipe[i].closes = d[2]
C36_ClosedOnce == [](C36_ClosedInv) /\ [][C36_ClosedStep]_vars

\* A module of two marked functions is through: generate succeeded for
\* the first and threw for the second, and both builds are closed.
C36_TwoBuildsClosed ==
    \E i \in Pipes :
        /\ pipe[i].pc = "done"
        /\ pipe[i].calls = 2
        /\ Len(pipe[i].codes) = 1
        /\ isDiagnostics(pipe[i].result)
        /\ pipe[i].closes = 2
        /\ ~pipe[i].open

\* The pipeline i ended in the scan of the declarations or at a skipped
\* emit.
FailedEarly(i) ==
    \/ pipe[i].pc = "rejected" /\ pipe[i].err[1] \in {"TypeError", "signatures"}
    \/ /\ pipe[i].pc = "done"
       /\ pipe[i].emits = 1
       /\ emitResult(argv[i]).emitSkipped

\* C37: a pipeline scans, emits, bundles descriptor by descriptor and
\* removes the emitted script, in this order: a failure in the scan and
\* a skipped emit come before any scratch directory or emitted script of
\* the pipeline, and the step that ends the pipeline there leaves the
\* file system as it is; the bundler is called only after an emit that
\* was not skipped; the emitted script is removed only after the bundler
\* was called.
C37_OrderInv ==
    \A i \in Pipes :
        /\ FailedEarly(i) =>
              /\ pipe[i].mkdtemps = 0
              /\ pipe[i].calls = 0
              /\ DirsOf(i) = {}
              /\ js[argv[i]].writer # i
        /\ pipe[i].mkdtemps > 0 =>
              /\ pipe[i].emits = 1
              /\ ~emitResult(argv[i]).emitSkipped
              /\ pipe[i].sprocs = storedProcedures(content[argv[i]].decls).sprocs
        /\ pipe[i].calls <= pipe[i].mkdtemps
        /\ pipe[i].pc \in {"rmJs", "done"} /\ ~FailedEarly(i) /\ pipe[i].sprocs # <<>> =>
              pipe[i].calls >= 1
C37_OrderStep ==
    \A i \in Pipes :
        /\ (pipe[i].pc = "idle" /\ pipe'[i].pc # "idle" /\ pipe'[i].pc # "mkdtemp") =>
              dirs' = dirs /\ js' = js
        /\ (js[argv[i]].exists /\ ~js'[argv[i]].exists /\ pipe[i].pc = "rmJs"
               /\ pipe'[i].pc = "done") =>
              pipe[i].calls >= 1 /\ pipe[i].emits = 1
C37_Order == [](C37_OrderInv) /\ [][C37_OrderStep]_vars

\* Of two modules the first has failed for an ambiguous signature and the
\* second at a skipped emit, and no directory and no script is there.
C37_BothFailedEarly ==
    /\ Len(argv) = 2
    /\ argv[1] # argv[2]
    /\ pipe[1].pc = "rejected"
    /\ pipe[1].err[1] = "signatures"
    /\ pipe[2].pc = "done"
    /\ FailedEarly(2)
    /\ dirs = {}
    /\ \A f \in Files : ~js[f].exists

---------------------------------------------------------------------------
(* C38: the emitted script of one input path *)

\* The input path with its last three characters replaced by ".js", as a
\* file.
ScriptPath == resolve(Cwd, SubSeq(run.fileName, 1, Len(run.fileName) - 3) \o Js)

\* C38: for an input path ending in ".ts" the script compile removes after
\* bundling and the module the entry script imports are one file, the
\* input path with ".js" for its last three characters; for an input path
\* ending in ".js" compile removes no file; the input file is never
\* removed.
C38_SameScript ==
    run.pc # "none" =>
        /\ endsWith(run.fileName, Ts) =>
              /\ run.imported # <<>> => run.imported = <<ScriptPath>>
              /\ run.removed # <<>> =>
                    /\ run.removed = <<ScriptPath>>
                    /\ run.removed = run.imported
                    /\ ScriptPath \notin run.files
              /\ (run.pc = "done" /\ run.imported # <<>>) => run.removed = run.imported
        /\ endsWith(run.fileName, Js) =>
              /\ run.removed = <<>>
              /\ run.pc = "done" /\ run.imported # <<>> =>
                    run.files = {resolve(Cwd, run.fileName)}
        /\ resolve(Cwd, run.fileName) \in run.files

\* The script of an input of the directory above, "../a.ts", has been
\* bundled and removed.
C38_ScriptOfUpperDirectoryRemoved ==
    /\ run.pc = "done"
    /\ run.fileName = <<".", ".", "/", "a", ".", "t", "s">>
    /\ run.imported = <<<<<<"w">>, <<"a", ".", "j", "s">>>>>>
    /\ run.removed = run.imported
    /\ run.files = {<<<<"w">>, <<"a", ".", "t", "s">>>>}

=============================================================================
